---- MODULE Spec2Model ----
(***************************************************************************)
(* Residual-to-filter compiler of cedar-rag-authz-demo                     *)
(* (src/compile/mapping.js, src/compile/residual-to-filter.js).            *)
(*                                                                         *)
(* JavaScript values are tagged records:                                   *)
(*   [t |-> "undefined"], [t |-> "null"], [t |-> "string", s |-> "..."],   *)
(*   [t |-> "number", n |-> 0], [t |-> "boolean", b |-> TRUE],             *)
(*   [t |-> "array", items |-> <<...>>],                                   *)
(*   [t |-> "object", entries |-> << [k |-> key, v |-> value], ... >>]     *)
(*   (entries in insertion order), [t |-> "function", name |-> "..."].     *)
(* A raised exception is the value [t |-> "throw", name |-> "TypeError"].  *)
(* Strings are TLA+ strings, inspected character by character with SubSeq. *)
(***************************************************************************)
EXTENDS Integers, Sequences, FiniteSets, TLC

(***************************************************************************)
(* JavaScript values                                                       *)
(***************************************************************************)
Undef == [t |-> "undefined"]

Null == [t |-> "null"]

Str(s) == [t |-> "string", s |-> s]

Num(n) == [t |-> "number", n |-> n]

Bool(b) == [t |-> "boolean", b |-> b]

Arr(items) == [t |-> "array", items |-> items]

Obj(entries) == [t |-> "object", entries |-> entries]

Fn(name) == [t |-> "function", name |-> name]

Throw(name) == [t |-> "throw", name |-> name]

KV(k, v) == [k |-> k, v |-> v]

IsThrow(v) == v.t = "throw"

IsNullish(v) == v.t \in {"undefined", "null"}

\* typeof v === 'object'  (null, arrays and plain objects)
TypeofObject(v) == v.t \in {"null", "array", "object"}

\* ToBoolean
Truthy(v) ==
  CASE v.t = "undefined" -> FALSE
    [] v.t = "null" -> FALSE
    [] v.t = "string" -> v.s # ""
    [] v.t = "number" -> v.n # 0
    [] v.t = "boolean" -> v.b
    [] OTHER -> TRUE

\* a || b
OrElse(a, b) == IF Truthy(a) THEN a ELSE b

RECURSIVE Lookup(_, _, _)
\* the value of the last entry with key k among entries[1..i], or undefined
Lookup(entries, k, i) ==
  IF i = 0 THEN Undef
  ELSE IF entries[i].k = k THEN entries[i].v
  ELSE Lookup(entries, k, i - 1)

\* v.k for an own data property of a plain object; arrays and primitives have
\* none of the property names the compiler reads
Get(v, k) == IF v.t = "object" THEN Lookup(v.entries, k, Len(v.entries)) ELSE Undef

(***************************************************************************)
(* Strings                                                                 *)
(***************************************************************************)
CharAt(s, i) == IF i >= 1 /\ i <= Len(s) THEN SubSeq(s, i, i) ELSE ""

\* the text lit occurs in s at position i
LitAt(s, i, lit) ==
  /\ i >= 1
  /\ i + Len(lit) - 1 <= Len(s)
  /\ SubSeq(s, i, i + Len(lit) - 1) = lit

startsWith(s, p) == LitAt(s, 1, p)

includes(s, p) == \E i \in 1..(Len(s) + 1) : LitAt(s, i, p)

WordChars ==
  { "a", "b", "c", "d", "e", "f", "g", "h", "i", "j", "k", "l", "m",
    "n", "o", "p", "q", "r", "s", "t", "u", "v", "w", "x", "y", "z",
    "A", "B", "C", "D", "E", "F", "G", "H", "I", "J", "K", "L", "M",
    "N", "O", "P", "Q", "R", "S", "T", "U", "V", "W", "X", "Y", "Z",
    "0", "1", "2", "3", "4", "5", "6", "7", "8", "9", "_" }

\* the characters \s and trim treat as white space (those a text here can hold)
SpaceChars == { " ", "\t", "\n", "\r", "\f" }

\* the white space of the JSON grammar
JsonSpaceChars == { " ", "\t", "\n", "\r" }

Digits == <<"0", "1", "2", "3", "4", "5", "6", "7", "8", "9">>

RECURSIVE RunEnd(_, _, _)
\* the position after the longest run of characters of class cls starting at i
RunEnd(s, i, cls) ==
  IF i <= Len(s) /\ CharAt(s, i) \in cls THEN RunEnd(s, i + 1, cls) ELSE i

RECURSIVE QuoteAt(_, _)
\* the position of the first double quote at or after i, or 0
QuoteAt(s, i) ==
  IF i > Len(s) THEN 0
  ELSE IF CharAt(s, i) = "\"" THEN i
  ELSE QuoteAt(s, i + 1)

RECURSIVE TrimEnd(_, _)
TrimEnd(s, j) == IF j >= 1 /\ CharAt(s, j) \in SpaceChars THEN TrimEnd(s, j - 1) ELSE j

\* String.prototype.trim
trim(s) ==
  LET i == RunEnd(s, 1, SpaceChars)
      j == TrimEnd(s, Len(s))
  IN IF i > j THEN "" ELSE SubSeq(s, i, j)

\* String(v) as a template literal `${v}` computes it
JSToString(v) ==
  CASE v.t = "string" -> v.s
    [] v.t = "number" -> Digits[v.n + 1]
    [] v.t = "boolean" -> IF v.b THEN "true" ELSE "false"
    [] v.t = "null" -> "null"
    [] v.t = "undefined" -> "undefined"
    [] OTHER -> "[object Object]"

(***************************************************************************)
(* mapping.js: attribute mapper and operand extraction                     *)
(***************************************************************************)
\* property names every object literal inherits from Object.prototype
ObjectPrototypeKeys ==
  { "constructor", "toString", "valueOf", "hasOwnProperty", "isPrototypeOf",
    "propertyIsEnumerable", "toLocaleString" }

\* fieldMap[field]
fieldMap(field) ==
  CASE field = "tenant" -> Str("tenant_id")
    [] field = "customer_readers_team" -> Str("customer_readers_team_id")
    [] field = "employee_readers_team" -> Str("employee_readers_team_id")
    [] field = "doc" -> Str("doc_id")
    [] field = "classification" -> Str("classification")
    [] field \in ObjectPrototypeKeys -> Fn(field)
    [] OTHER -> Undef

\* attrPath.replace(/^resource\./, '')
StripResource(s) == IF startsWith(s, "resource.") THEN SubSeq(s, 10, Len(s)) ELSE s

mapAttributeToField(attrPath) ==
  IF attrPath.t # "string" THEN Throw("TypeError")
  ELSE LET field == StripResource(attrPath.s)
       IN OrElse(fieldMap(field), Str(field))

extractAttributePath(expr) ==
  IF expr.t = "string" /\ (startsWith(expr.s, "resource.") \/ startsWith(expr.s, "principal."))
  THEN expr
  ELSE IF Truthy(expr) /\ TypeofObject(expr)
  THEN IF Truthy(Get(expr, "attr")) \/ Truthy(Get(expr, "attribute"))
       THEN LET base == OrElse(Get(expr, "base"), Str("resource"))
                attr == OrElse(Get(expr, "attr"), Get(expr, "attribute"))
            IN Str(JSToString(base) \o "." \o JSToString(attr))
       ELSE IF Truthy(Get(expr, "path")) THEN Get(expr, "path")
       ELSE Null
  ELSE Null

extractValue(expr) ==
  IF IsNullish(expr) THEN Null
  ELSE IF expr.t \in {"string", "number", "boolean"} THEN expr
  ELSE IF TypeofObject(expr)
  THEN IF Get(expr, "value") # Undef THEN Get(expr, "value")
       ELSE IF Truthy(Get(expr, "literal")) THEN Get(expr, "literal")
       ELSE IF Truthy(Get(expr, "__entity")) /\ Truthy(Get(expr, "id")) THEN Get(expr, "id")
       ELSE IF Truthy(Get(expr, "__entity")) THEN Get(expr, "__entity")
       ELSE Null
  ELSE Null

\* the computed property key of { [fieldName]: value }
PropKey(fieldName) == IF fieldName.t = "function" THEN "function " \o fieldName.name \o "() { [native code] }" ELSE JSToString(fieldName)

Term(fieldName, value) == Obj(<<KV("term", Obj(<<KV(PropKey(fieldName), value)>>))>>)

Terms(fieldName, values) == Obj(<<KV("terms", Obj(<<KV(PropKey(fieldName), values)>>))>>)

Exists(fieldName) == Obj(<<KV("exists", Obj(<<KV("field", fieldName)>>))>>)

\* an equality clause that makes a term of every value, null included
EqualityClause_NoNullCheck(fieldName, value) ==
  IF IsThrow(fieldName) THEN fieldName ELSE Term(fieldName, value)

\* the clause of compileEquality once the field name is known
EqualityClause(fieldName, value) ==
  IF IsThrow(fieldName) THEN fieldName
  ELSE IF IsNullish(value) THEN Exists(fieldName)
  ELSE Term(fieldName, value)

\* compileEquality once attrPath and value are extracted
EqualityOf(attrPath, value) ==
  IF ~Truthy(attrPath) THEN Null
  ELSE EqualityClause(mapAttributeToField(attrPath), value)

compileEquality(expr) ==
  EqualityOf(extractAttributePath(OrElse(Get(expr, "left"), Get(expr, "lhs"))),
             extractValue(OrElse(Get(expr, "right"), Get(expr, "rhs"))))

\* the clause of compileContains once the field name and the set are known
ContainsClause(fieldName, setValue) ==
  IF setValue.t = "array" THEN Terms(fieldName, setValue)
  ELSE IF Truthy(setValue) THEN Term(fieldName, setValue)
  ELSE Null

\* compileContains once rightPath is extracted; left is the set operand
ContainsOf(left, rightPath) ==
  IF ~Truthy(rightPath) THEN Null
  ELSE IF rightPath.t # "string" THEN Throw("TypeError")
  ELSE IF ~startsWith(rightPath.s, "resource.") THEN Null
  ELSE ContainsClause(mapAttributeToField(rightPath), extractValue(left))

compileContains(expr) ==
  ContainsOf(OrElse(Get(expr, "left"), Get(expr, "lhs")),
             extractAttributePath(OrElse(Get(expr, "right"), Get(expr, "rhs"))))

(***************************************************************************)
(* mapping.js: clause sets                                                 *)
(***************************************************************************)
\* { must: [...], must_not: [...], should: [...] }
ClauseSet(must, must_not, should) ==
  [t |-> "clauseset", must |-> must, must_not |-> must_not, should |-> should]

EmptyResult == ClauseSet(<<>>, <<>>, <<>>)

\* a merge that puts the source's must entries in front of the target's
mergeResults_Prepend(target, source) ==
  ClauseSet(source.must \o target.must,
            target.must_not \o source.must_not,
            target.should \o source.should)

\* a merge that forgets the source's should entries
mergeResults_NoShould(target, source) ==
  ClauseSet(target.must \o source.must,
            target.must_not \o source.must_not,
            target.should)

mergeResults(target, source) ==
  ClauseSet(target.must \o source.must,
            target.must_not \o source.must_not,
            target.should \o source.should)

\* `for (const x of v)` raises a TypeError unless v is iterable
Iterable(v) == v.t \in {"array", "string"}

\* the values `for (const x of v)` visits: the items of an array, the
\* characters of a string
Iterate(v) ==
  IF v.t = "array" THEN v.items
  ELSE [i \in 1..Len(v.s) |-> Str(CharAt(v.s, i))]

\* result.must.push(clause), where computing the clause may have raised
PushMust(result, clause) ==
  IF IsThrow(clause) THEN clause
  ELSE ClauseSet(Append(result.must, clause), result.must_not, result.should)

PushMustNot(result, clause) ==
  IF IsThrow(clause) THEN clause
  ELSE ClauseSet(result.must, Append(result.must_not, clause), result.should)

\* a push that overwrites the should entries already collected
PushShould_Replace(result, clauses) ==
  ClauseSet(result.must, result.must_not, clauses)

PushShould(result, clauses) ==
  ClauseSet(result.must, result.must_not, result.should \o clauses)

(***************************************************************************)
(* mapping.js: compileExpression                                           *)
(***************************************************************************)
RECURSIVE compileExpression(_, _)
RECURSIVE AndLoop(_, _, _)
RECURSIVE AndStep(_, _, _, _)
RECURSIVE OrLoop(_, _, _)
RECURSIVE OrStep(_, _, _, _)

\* the loop of case 'and' from child i on
AndLoop(children, i, result) ==
  IF i > Len(children) THEN result
  ELSE AndStep(children, i, result, compileExpression(children[i], EmptyResult))

\* mergeResults(result, childResult) and the rest of the loop
AndStep(children, i, result, childResult) ==
  IF IsThrow(childResult) THEN childResult
  ELSE AndLoop(children, i + 1, mergeResults(result, childResult))

\* the loop of case 'or' from child i on; the value is shouldClauses
OrLoop(children, i, shouldClauses) ==
  IF i > Len(children) THEN Arr(shouldClauses)
  ELSE OrStep(children, i, shouldClauses, compileExpression(children[i], EmptyResult))

\* shouldClauses.push(...childResult.must) and the rest of the loop
OrStep(children, i, shouldClauses, childResult) ==
  IF IsThrow(childResult) THEN childResult
  ELSE OrLoop(children, i + 1, shouldClauses \o childResult.must)

\* result.should.push(...shouldClauses) after the loop of case 'or'
OrResult(result, shouldClauses) ==
  IF IsThrow(shouldClauses) THEN shouldClauses
  ELSE PushShould(result, shouldClauses.items)

\* a switch that compiles a node with an unknown operator as an equality
Switch_UnknownAsEquality(expr, result, op, children) ==
  CASE op \in {Str("and"), Str("&&")} ->
         IF ~Truthy(children) THEN result
         ELSE IF ~Iterable(children) THEN Throw("TypeError")
         ELSE AndLoop(Iterate(children), 1, result)
    [] op \in {Str("or"), Str("||")} ->
         IF ~Truthy(children) THEN result
         ELSE IF ~Iterable(children) THEN Throw("TypeError")
         ELSE OrResult(result, OrLoop(Iterate(children), 1, <<>>))
    [] op \in {Str("!="), Str("ne")} -> PushMustNot(result, compileEquality(expr))
    [] op \in {Str("in"), Str("contains")} -> PushMust(result, compileContains(expr))
    [] OTHER -> PushMust(result, compileEquality(expr))

\* the switch of compileExpression
Switch(expr, result, op, children) ==
  CASE op \in {Str("and"), Str("&&")} ->
         IF ~Truthy(children) THEN result
         ELSE IF ~Iterable(children) THEN Throw("TypeError")
         ELSE AndLoop(Iterate(children), 1, result)
    [] op \in {Str("or"), Str("||")} ->
         IF ~Truthy(children) THEN result
         ELSE IF ~Iterable(children) THEN Throw("TypeError")
         ELSE OrResult(result, OrLoop(Iterate(children), 1, <<>>))
    [] op \in {Str("=="), Str("eq")} -> PushMust(result, compileEquality(expr))
    [] op \in {Str("!="), Str("ne")} -> PushMustNot(result, compileEquality(expr))
    [] op \in {Str("in"), Str("contains")} -> PushMust(result, compileContains(expr))
    [] OTHER -> result

compileExpression(expr, result) ==
  IF ~Truthy(expr) \/ ~TypeofObject(expr) THEN result
  ELSE Switch(expr, result,
              OrElse(OrElse(Get(expr, "op"), Get(expr, "operator")), Get(expr, "kind")),
              OrElse(Get(expr, "children"), Get(expr, "args")))

(***************************************************************************)
(* JSON.parse, for texts made of whitespace, null, true, false, unsigned    *)
(* integers, strings without escapes, arrays and objects                    *)
(***************************************************************************)
NoParse == [ok |-> FALSE, v |-> Undef, next |-> 0]

Parsed(v, next) == [ok |-> TRUE, v |-> v, next |-> next]

RECURSIVE DigitsValue(_, _, _, _)
\* the number written by the digits s[i..j-1], continuing from acc
DigitsValue(s, i, j, acc) ==
  IF i >= j THEN acc
  ELSE DigitsValue(s, i + 1, j,
         acc * 10 + (CHOOSE d \in 0..9 : Digits[d + 1] = CharAt(s, i)))

DigitChars == { Digits[d] : d \in 1..10 }

RECURSIVE PutEntry(_, _, _, _)
\* entries with key k set to v: replaced in place when present, else appended
PutEntry(entries, k, v, i) ==
  IF i > Len(entries) THEN Append(entries, KV(k, v))
  ELSE IF entries[i].k = k THEN [entries EXCEPT ![i] = KV(k, v)]
  ELSE PutEntry(entries, k, v, i + 1)

\* the string literal s[i..q] between the quotes at i and q (q = 0: no closing quote)
StringBetween(s, i, q) ==
  IF q = 0 THEN NoParse
  ELSE IF \E c \in {"\n", "\t", "\r", "\\"} : includes(SubSeq(s, i + 1, q - 1), c) THEN NoParse
  ELSE Parsed(Str(SubSeq(s, i + 1, q - 1)), q + 1)

\* a JSON string literal starting at the quote at position i
ParseString(s, i) ==
  IF CharAt(s, i) # "\"" THEN NoParse ELSE StringBetween(s, i, QuoteAt(s, i + 1))

RECURSIVE ParseValue(_, _)
RECURSIVE ValueAt(_, _)
RECURSIVE ParseElems(_, _, _)
RECURSIVE ElemsAfter(_, _, _, _)
RECURSIVE ElemsNext(_, _, _, _)
RECURSIVE ParseMembers(_, _, _)
RECURSIVE MemberValue(_, _, _, _)
RECURSIVE MembersAfter(_, _, _, _)
RECURSIVE MembersNext(_, _, _)

\* a JSON value at or after position i (leading whitespace skipped)
ParseValue(s, i) == ValueAt(s, RunEnd(s, i, JsonSpaceChars))

\* a JSON value starting exactly at position i
ValueAt(s, i) ==
  CASE LitAt(s, i, "null") -> Parsed(Null, i + 4)
    [] LitAt(s, i, "true") -> Parsed(Bool(TRUE), i + 4)
    [] LitAt(s, i, "false") -> Parsed(Bool(FALSE), i + 5)
    [] CharAt(s, i) = "0" -> Parsed(Num(0), i + 1)
    [] CharAt(s, i) \in DigitChars \ {"0"} ->
         Parsed(Num(DigitsValue(s, i, RunEnd(s, i, DigitChars), 0)), RunEnd(s, i, DigitChars))
    [] CharAt(s, i) = "\"" -> ParseString(s, i)
    [] CharAt(s, i) = "[" -> ParseElems(s, RunEnd(s, i + 1, JsonSpaceChars), <<>>)
    [] CharAt(s, i) = "{" -> ParseMembers(s, RunEnd(s, i + 1, JsonSpaceChars), <<>>)
    [] OTHER -> NoParse

\* the elements of an array from position i on, items being those read so far
ParseElems(s, i, items) ==
  IF items = <<>> /\ CharAt(s, i) = "]" THEN Parsed(Arr(<<>>), i + 1)
  ELSE ElemsAfter(s, i, items, ParseValue(s, i))

\* the array after its element e
ElemsAfter(s, i, items, e) ==
  IF ~e.ok THEN NoParse
  ELSE ElemsNext(s, RunEnd(s, e.next, JsonSpaceChars), items, e)

\* the array from the separator at position j after element e
ElemsNext(s, j, items, e) ==
  CASE CharAt(s, j) = "]" -> Parsed(Arr(Append(items, e.v)), j + 1)
    [] CharAt(s, j) = "," -> ElemsAfter(s, j + 1, Append(items, e.v), ParseValue(s, j + 1))
    [] OTHER -> NoParse

\* the members of an object from position i on (whitespace skipped)
ParseMembers(s, i, entries) ==
  IF entries = <<>> /\ CharAt(s, i) = "}" THEN Parsed(Obj(<<>>), i + 1)
  ELSE MemberValue(s, i, entries, ParseString(s, i))

\* the member whose key has been read
MemberValue(s, i, entries, key) ==
  IF ~key.ok \/ CharAt(s, RunEnd(s, key.next, JsonSpaceChars)) # ":" THEN NoParse
  ELSE MembersAfter(s, entries, key, ParseValue(s, RunEnd(s, key.next, JsonSpaceChars) + 1))

\* the object after the member key: e
MembersAfter(s, entries, key, e) ==
  IF ~e.ok THEN NoParse
  ELSE MembersNext(s, RunEnd(s, e.next, JsonSpaceChars), PutEntry(entries, key.v.s, e.v, 1))

\* the object from the separator at position j
MembersNext(s, j, entries) ==
  CASE CharAt(s, j) = "}" -> Parsed(Obj(entries), j + 1)
    [] CharAt(s, j) = "," -> ParseMembers(s, RunEnd(s, j + 1, JsonSpaceChars), entries)
    [] OTHER -> NoParse

\* the value when it is followed by nothing but whitespace, else a SyntaxError
WholeText(text, e) ==
  IF e.ok /\ RunEnd(text, e.next, JsonSpaceChars) = Len(text) + 1 THEN e.v
  ELSE Throw("SyntaxError")

\* JSON.parse(text): the value, or the SyntaxError it raises
JSONparse(text) == WholeText(text, ParseValue(text, 1))

(***************************************************************************)
(* mapping.js: parseCedarExpression.  Each regular expression is a matcher  *)
(* "...At(s, i)" for a match starting at position i; String.match takes the *)
(* leftmost starting position.  \w+ and \s* are followed by a character     *)
(* outside their class and [^"]+ by a quote, so each takes its longest run. *)
(***************************************************************************)
NoMatch == [ok |-> FALSE, id |-> Undef, attr |-> Undef, next |-> 0]

\* a match that captured an entity id / an attribute name and ends before next
Captured(ok, id, attr, next) ==
  IF ok THEN [ok |-> TRUE, id |-> id, attr |-> attr, next |-> next] ELSE NoMatch

\* "([^"]+)" with the opening quote at position o - 1 and the closing one at q
QuotedTo(s, o, q) == Captured(q > o, Str(SubSeq(s, o, q - 1)), Undef, q + 1)

\* ::"([^"]+)" after the type name that ends before position w
EntityIdAt(s, w) ==
  IF LitAt(s, w, "::\"") THEN QuotedTo(s, w + 3, QuoteAt(s, w + 3)) ELSE NoMatch

\* (\w+) from position i to before position w, followed by the text close
WordTo(s, i, w, close) ==
  Captured(w > i /\ LitAt(s, w, close), Undef, Str(SubSeq(s, i, w - 1)), w + Len(close))

\* (\w+)\)? from position i to before position w
WordOptParen(s, i, w) ==
  Captured(w > i, Undef, Str(SubSeq(s, i, w - 1)), IF CharAt(s, w) = ")" THEN w + 1 ELSE w)

\* the type name \w+ from position i to before position w, then ::"([^"]+)"
TypeTo(s, i, w) == IF w > i THEN EntityIdAt(s, w) ELSE NoMatch

\* Platform::\w+::"([^"]+)"
EntityAt(s, i) ==
  IF LitAt(s, i, "Platform::") THEN TypeTo(s, i + 10, RunEnd(s, i + 10, WordChars))
  ELSE NoMatch

\* \(resource\.(\w+)\)
ParenResourceAt(s, i) ==
  IF LitAt(s, i, "(resource.") THEN WordTo(s, i + 10, RunEnd(s, i + 10, WordChars), ")")
  ELSE NoMatch

\* (?:Platform::\w+::"([^"]+)"|\(resource\.(\w+)\))
SideAt(s, i) ==
  IF LitAt(s, i, "Platform::") THEN EntityAt(s, i) ELSE ParenResourceAt(s, i)

\* resource\.(\w+)\)?
ResourceOptParenAt(s, i) ==
  IF LitAt(s, i, "resource.") THEN WordOptParen(s, i + 9, RunEnd(s, i + 9, WordChars))
  ELSE NoMatch

\* \(?resource\.(\w+)\)?
ResourceAt(s, i) == ResourceOptParenAt(s, IF CharAt(s, i) = "(" THEN i + 1 ELSE i)

\* resource\.(\w+)
BareResourceAt(s, i) ==
  IF LitAt(s, i, "resource.") THEN WordTo(s, i + 9, RunEnd(s, i + 9, WordChars), "")
  ELSE NoMatch

\* the operator op at position j, then \s*: the position after, or 0
OpAt(s, j, op) == IF LitAt(s, j, op) THEN RunEnd(s, j + Len(op), SpaceChars) ELSE 0

\* the position after \s*<op>\s* read from position i, or 0
AfterOp(s, i, op) == OpAt(s, RunEnd(s, i, SpaceChars), op)

\* the groups of entityEqMatch: a holds groups 1 and 2, b groups 3 and 4
BothSides(a, b) == [ok |-> b.ok, m1 |-> a, m2 |-> b]

\* the right side of entityEqMatch at position k (0: no == after the left side)
RightSideAt(s, a, k) == BothSides(a, IF k > 0 THEN SideAt(s, k) ELSE NoMatch)

\* entityEqMatch after its left side a
AfterLeftSide(s, a) == RightSideAt(s, a, IF a.ok THEN AfterOp(s, a.next, "==") ELSE 0)

\* entityEqMatch
EntityEqAt(s, i) == AfterLeftSide(s, SideAt(s, i))

\* a match of two parts: the attribute of a, the id of b
AttrThenId(a, b) == [ok |-> b.ok, id |-> b.id, attr |-> a.attr]

\* Platform::\w+::"([^"]+)" at position k (0: no match so far)
EntityAtOr(s, k) == IF k > 0 THEN EntityAt(s, k) ELSE NoMatch

\* "([^"]+)" at position k (0: no match so far)
QuotedAtOr(s, k) ==
  IF k > 0 /\ CharAt(s, k) = "\"" THEN QuotedTo(s, k + 1, QuoteAt(s, k + 1)) ELSE NoMatch

\* resourceEntityEqMatch after its left side a
EntityAfter(s, a) ==
  AttrThenId(a, EntityAtOr(s, IF a.ok THEN AfterOp(s, a.next, "==") ELSE 0))

\* resourceEntityEqMatch
ResourceEntityEqAt(s, i) == EntityAfter(s, ResourceAt(s, i))

\* stringEqMatch after its left side a
QuotedAfter(s, a) ==
  AttrThenId(a, QuotedAtOr(s, IF a.ok THEN AfterOp(s, a.next, "==") ELSE 0))

\* stringEqMatch
StringEqAt(s, i) == QuotedAfter(s, ResourceAt(s, i))

\* the groups of setContainsMatch: the id of the entity e, the attribute of a
IdThenAttr(e, a) == [ok |-> a.ok, id |-> e.id, attr |-> a.attr]

\* resource\.(\w+)\) with the word starting at position r, after the entity e
MemberAt(s, e, r) == IdThenAttr(e, WordTo(s, r, RunEnd(s, r, WordChars), ")"))

\* \]\.contains\(resource\.(\w+)\) after the entity e
ContainsAfter(s, e) ==
  IF e.ok /\ LitAt(s, e.next, "].contains(resource.") THEN MemberAt(s, e, e.next + 20)
  ELSE NoMatch

\* setContainsMatch
SetContainsAt(s, i) ==
  ContainsAfter(s, IF CharAt(s, i) = "[" THEN EntityAt(s, i + 1) ELSE NoMatch)

\* null at position k (0: no match so far) after the attribute of a
NullAt(s, a, k) == [ok |-> k > 0 /\ LitAt(s, k, "null"), id |-> Undef, attr |-> a.attr]

\* \s*<op>\s*null after the attribute reference a
NullAfter(s, a, op) == NullAt(s, a, IF a.ok THEN AfterOp(s, a.next, op) ELSE 0)

\* notNullMatch
NotNullAt(s, i) == NullAfter(s, BareResourceAt(s, i), "!=")

\* nullMatch
IsNullAt(s, i) == NullAfter(s, BareResourceAt(s, i), "==")

\* the leftmost of the starting positions, or 0 when there is none
Leftmost(starts) ==
  IF starts = {} THEN 0 ELSE CHOOSE i \in starts : \A j \in starts : i <= j

\* exprText.match(re) for each of the six expressions: the match at the
\* leftmost starting position; no match starts at position 0
MatchEntityEq(s) == EntityEqAt(s, Leftmost({ j \in 1..Len(s) : EntityEqAt(s, j).ok }))

MatchResourceEntityEq(s) ==
  ResourceEntityEqAt(s, Leftmost({ j \in 1..Len(s) : ResourceEntityEqAt(s, j).ok }))

MatchStringEq(s) == StringEqAt(s, Leftmost({ j \in 1..Len(s) : StringEqAt(s, j).ok }))

MatchSetContains(s) ==
  SetContainsAt(s, Leftmost({ j \in 1..Len(s) : SetContainsAt(s, j).ok }))

MatchNotNull(s) == NotNullAt(s, Leftmost({ j \in 1..Len(s) : NotNullAt(s, j).ok }))

MatchIsNull(s) == IsNullAt(s, Leftmost({ j \in 1..Len(s) : IsNullAt(s, j).ok }))

\* mapAttributeToField(`resource.${attrName}`)
ResourceField(attrName) == mapAttributeToField(Str("resource." \o attrName.s))

\* result.must.push({ term: { [field]: id } }) for the attribute matched
PushTerm(result, attrName, id) == PushMust(result, Term(ResourceField(attrName), id))

\* a nullMatch branch that raises when no pattern matched
OnIsNull_RaiseUnmatched(result, nullMatch) ==
  IF nullMatch.ok THEN PushMustNot(result, Exists(ResourceField(nullMatch.attr)))
  ELSE Throw("SyntaxError")

\* a nullMatch branch that pushes the exists clause into must
OnIsNull_IntoMust(result, nullMatch) ==
  IF nullMatch.ok THEN PushMust(result, Exists(ResourceField(nullMatch.attr)))
  ELSE result

\* the nullMatch branch and the fall-through `return result`
OnIsNull(result, nullMatch) ==
  IF nullMatch.ok THEN PushMustNot(result, Exists(ResourceField(nullMatch.attr)))
  ELSE result

\* a notNullMatch branch without its `return result`: the null pattern is tried too
OnNotNull_FallThrough(exprText, result, notNullMatch) ==
  IF notNullMatch.ok
  THEN OnIsNull(PushMust(result, Exists(ResourceField(notNullMatch.attr))), MatchIsNull(exprText))
  ELSE OnIsNull(result, MatchIsNull(exprText))

OnNotNull(exprText, result, notNullMatch) ==
  IF notNullMatch.ok THEN PushMust(result, Exists(ResourceField(notNullMatch.attr)))
  ELSE OnIsNull(result, MatchIsNull(exprText))

OnSetContains(exprText, result, setContainsMatch) ==
  IF setContainsMatch.ok THEN PushTerm(result, setContainsMatch.attr, setContainsMatch.id)
  ELSE OnNotNull(exprText, result, MatchNotNull(exprText))

OnStringEq(exprText, result, stringEqMatch) ==
  IF stringEqMatch.ok THEN PushTerm(result, stringEqMatch.attr, stringEqMatch.id)
  ELSE OnSetContains(exprText, result, MatchSetContains(exprText))

OnResourceEntityEq(exprText, result, resourceEntityEqMatch) ==
  IF resourceEntityEqMatch.ok
  THEN PushTerm(result, resourceEntityEqMatch.attr, resourceEntityEqMatch.id)
  ELSE OnStringEq(exprText, result, MatchStringEq(exprText))

\* the entityEqMatch branch, with entityId = m[1] || m[3], attrName = m[2] || m[4]
OnEntityEq(exprText, result, matched, entityId, attrName) ==
  IF matched /\ Truthy(entityId) /\ Truthy(attrName) THEN PushTerm(result, attrName, entityId)
  ELSE OnResourceEntityEq(exprText, result, MatchResourceEntityEq(exprText))

\* the groups of entityEqMatch read out
EntityEqGroups(exprText, result, m) ==
  OnEntityEq(exprText, result, m.ok, OrElse(m.m1.id, m.m2.id), OrElse(m.m1.attr, m.m2.attr))

parseCedarExpression(exprText, result) ==
  IF trim(exprText) = "false" THEN result
  ELSE EntityEqGroups(exprText, result, MatchEntityEq(exprText))

(***************************************************************************)
(* mapping.js: parseConditionObject and compileResidual                    *)
(***************************************************************************)
\* the position after the first `::"` at or after i, or 0
RECURSIVE EntityQuoteAt(_, _)
EntityQuoteAt(s, i) ==
  IF i + 2 > Len(s) THEN 0
  ELSE IF LitAt(s, i, "::\"") THEN i + 3
  ELSE EntityQuoteAt(s, i + 1)

RECURSIVE IdMatchFrom(_, _)
\* entityRef.match(/::"([^"]+)"/) tried from position i on: the captured id,
\* or null when nothing matches
IdMatchFrom(s, i) ==
  IF EntityQuoteAt(s, i) = 0 THEN Null
  ELSE IF QuoteAt(s, EntityQuoteAt(s, i)) > EntityQuoteAt(s, i)
  THEN Str(SubSeq(s, EntityQuoteAt(s, i), QuoteAt(s, EntityQuoteAt(s, i)) - 1))
  ELSE IdMatchFrom(s, EntityQuoteAt(s, i))

\* util.js: extractEntityId
extractEntityId(entityRef) ==
  IF entityRef.t = "string"
  THEN OrElse(IdMatchFrom(entityRef.s, 1), entityRef)
  ELSE IF Truthy(entityRef) /\ Truthy(Get(entityRef, "id")) THEN Get(entityRef, "id")
  ELSE IF Truthy(entityRef) /\ Truthy(Get(entityRef, "__entity"))
  THEN OrElse(Get(entityRef, "id"), Get(entityRef, "__entity"))
  ELSE entityRef

\* mapping.js imports nothing and declares no extractEntityId: evaluating the
\* call extractEntityId(value) raises a ReferenceError
extractEntityIdInMapping(value) == Throw("ReferenceError")

\* result.must.push({ term: { tenant_id: id } }), where computing id may have raised
TenantTerm(result, id) ==
  IF IsThrow(id) THEN id ELSE PushMust(result, Term(Str("tenant_id"), id))

\* the body of the loop of parseConditionObject for one entry
EntryStep(result, key, value) ==
  IF includes(key, "tenant") THEN TenantTerm(result, extractEntityIdInMapping(value))
  ELSE IF includes(key, "classification")
  THEN IF value = Str("confidential")
       THEN PushMustNot(result, Term(Str("classification"), Str("confidential")))
       ELSE PushMust(result, Term(Str("classification"), value))
  ELSE result

RECURSIVE EntriesLoop(_, _, _)
\* the loop of parseConditionObject from entry i on
EntriesLoop(entries, i, result) ==
  IF IsThrow(result) \/ i > Len(entries) THEN result
  ELSE EntriesLoop(entries, i + 1, EntryStep(result, entries[i].k, entries[i].v))

parseConditionObject(obj, result) == EntriesLoop(obj.entries, 1, result)

RECURSIVE compileResidual(_)
RECURSIVE ItemsLoop(_, _, _)
RECURSIVE ItemStep(_, _, _, _)

\* the loop over an array residual from item i on
ItemsLoop(items, i, result) ==
  IF i > Len(items) THEN result
  ELSE ItemStep(items, i, result, compileResidual(items[i]))

\* mergeResults(result, compiled) and the rest of the loop
ItemStep(items, i, result, compiled) ==
  IF IsThrow(compiled) THEN compiled
  ELSE ItemsLoop(items, i + 1, mergeResults(result, compiled))

\* a dispatch that pushes a value that is not an object as a must clause
Dispatch_PushPrimitive(expr, result) ==
  IF Truthy(expr) /\ TypeofObject(expr)
  THEN IF Get(expr, "kind") = Str("expr") \/ Truthy(Get(expr, "expr"))
       THEN compileExpression(OrElse(Get(expr, "expr"), expr), result)
       ELSE IF Truthy(Get(expr, "op")) \/ Truthy(Get(expr, "operator"))
       THEN compileExpression(expr, result)
       ELSE IF expr.t = "array" THEN ItemsLoop(expr.items, 1, result)
       ELSE parseConditionObject(expr, result)
  ELSE PushMust(result, expr)

\* compileResidual once expr is an object: the structural dispatch
Dispatch(expr, result) ==
  IF Truthy(expr) /\ TypeofObject(expr)
  THEN IF Get(expr, "kind") = Str("expr") \/ Truthy(Get(expr, "expr"))
       THEN compileExpression(OrElse(Get(expr, "expr"), expr), result)
       ELSE IF Truthy(Get(expr, "op")) \/ Truthy(Get(expr, "operator"))
       THEN compileExpression(expr, result)
       ELSE IF expr.t = "array" THEN ItemsLoop(expr.items, 1, result)
       ELSE parseConditionObject(expr, result)
  ELSE result

\* compileResidual of a string, parsed being the outcome of JSON.parse
AfterParse(condition, result, parsed) ==
  IF IsThrow(parsed) THEN parseCedarExpression(condition.s, result)
  ELSE Dispatch(parsed, result)

compileResidual(condition) ==
  IF condition.t = "string" THEN AfterParse(condition, EmptyResult, JSONparse(condition.s))
  ELSE Dispatch(condition, EmptyResult)

(***************************************************************************)
(* residual-to-filter.js                                                   *)
(***************************************************************************)
\* v.k as JavaScript evaluates it: reading a property of null or undefined
\* raises a TypeError
GetOrThrow(v, k) == IF IsNullish(v) THEN Throw("TypeError") ELSE Get(v, k)

\* the body of the loop of extractConditionsFromPolicySet for one policy, cond
\* being policy.expr || policy.condition
PolicyStep(conditions, cond) ==
  IF Truthy(cond) THEN Append(conditions, cond) ELSE conditions

RECURSIVE PoliciesLoop(_, _, _)
\* the loop of extractConditionsFromPolicySet from policy i on
PoliciesLoop(policies, i, conditions) ==
  IF i > Len(policies) THEN Arr(conditions)
  ELSE IF IsThrow(GetOrThrow(policies[i], "expr")) THEN GetOrThrow(policies[i], "expr")
  ELSE PoliciesLoop(policies, i + 1,
         PolicyStep(conditions, OrElse(Get(policies[i], "expr"), Get(policies[i], "condition"))))

\* extractConditionsFromPolicySet once policySet.policies is read
PoliciesOf(policies) ==
  IF Truthy(policies) /\ policies.t = "array" THEN PoliciesLoop(policies.items, 1, <<>>)
  ELSE Arr(<<>>)

extractConditionsFromPolicySet(policySet) == PoliciesOf(Get(policySet, "policies"))

\* the body of the loop of extractConditions for one entry
KeyStep(conditions, key, value) ==
  IF (includes(key, "condition") \/ includes(key, "expr") \/ includes(key, "when"))
     /\ Truthy(value)
  THEN Append(conditions, value)
  ELSE conditions

RECURSIVE KeysLoop(_, _, _)
\* the loop of extractConditions from key i on
KeysLoop(entries, i, conditions) ==
  IF i > Len(entries) THEN Arr(conditions)
  ELSE KeysLoop(entries, i + 1, KeyStep(conditions, entries[i].k, entries[i].v))

extractConditions(residual) == KeysLoop(residual.entries, 1, <<>>)

parseCedarResidualText(text) == Arr(<<>>)

RECURSIVE ConditionsLoop(_, _, _)
\* the body of the loop of buildOpenSearchFilter for one condition; a
\* condition whose compilation raises is caught and skipped
ConditionStep(acc, compiled) ==
  IF IsThrow(compiled) THEN acc ELSE mergeResults(acc, compiled)

\* the loop of buildOpenSearchFilter from condition i on
ConditionsLoop(conditions, i, acc) ==
  IF i > Len(conditions) THEN acc
  ELSE ConditionsLoop(conditions, i + 1, ConditionStep(acc, compileResidual(conditions[i])))

\* a bool query that carries minimum_should_match even without should
BoolQuery_AlwaysMarker(must, mustNot, should) ==
  Obj((IF Len(must) > 0 THEN <<KV("must", Arr(must))>> ELSE <<>>)
      \o (IF Len(mustNot) > 0 THEN <<KV("must_not", Arr(mustNot))>> ELSE <<>>)
      \o (IF Len(should) > 0 THEN <<KV("should", Arr(should))>> ELSE <<>>)
      \o <<KV("minimum_should_match", Num(1))>>)

\* the bool query built from the three collected arrays
BoolQuery(must, mustNot, should) ==
  Obj((IF Len(must) > 0 THEN <<KV("must", Arr(must))>> ELSE <<>>)
      \o (IF Len(mustNot) > 0 THEN <<KV("must_not", Arr(mustNot))>> ELSE <<>>)
      \o (IF Len(should) > 0
          THEN <<KV("should", Arr(should)), KV("minimum_should_match", Num(1))>>
          ELSE <<>>))

\* return { bool: boolQuery } for the clauses collected in acc
FilterOf(acc) == Obj(<<KV("bool", BoolQuery(acc.must, acc.must_not, acc.should))>>)

buildOpenSearchFilter(conditions) ==
  IF ~Iterable(conditions) THEN Throw("TypeError")
  ELSE FilterOf(ConditionsLoop(Iterate(conditions), 1, EmptyResult))

\* the conditions compileToOpenSearchFilter extracts from an object residual
ConditionsOf(residual) ==
  IF Truthy(Get(residual, "policies")) THEN extractConditionsFromPolicySet(residual)
  ELSE IF Truthy(Get(residual, "conditions")) \/ Truthy(Get(residual, "expr"))
  THEN OrElse(Get(residual, "conditions"), Arr(<<Get(residual, "expr")>>))
  ELSE IF residual.t = "array" THEN residual
  ELSE extractConditions(residual)

\* buildOpenSearchFilter(conditions), unless extracting the conditions raised
BuildFrom(conditions) ==
  IF IsThrow(conditions) THEN conditions ELSE buildOpenSearchFilter(conditions)

\* compileToOpenSearchFilter from the extraction of the conditions on
FromResidual(residual) ==
  IF Truthy(residual) /\ TypeofObject(residual) THEN BuildFrom(ConditionsOf(residual))
  ELSE buildOpenSearchFilter(Arr(<<>>))

\* compileToOpenSearchFilter of a string, parsed being the outcome of JSON.parse
FromText(residual, parsed) ==
  IF IsThrow(parsed) THEN buildOpenSearchFilter(parseCedarResidualText(residual.s))
  ELSE FromResidual(parsed)

compileToOpenSearchFilter(residual) ==
  IF residual.t = "string" THEN FromText(residual, JSONparse(residual.s))
  ELSE FromResidual(residual)

\* the value JSON.parse reads back from JSON.stringify(v): an entry whose
\* value is undefined or a function is left out of an object and written as
\* null in an array
NotWritten(v) == v.t \in {"undefined", "function"}

RECURSIVE JsonImage(_)
RECURSIVE ImageOfEntries(_, _)

\* the entries of an object as they are read back, from entry i on
ImageOfEntries(entries, i) ==
  IF i > Len(entries) THEN <<>>
  ELSE IF NotWritten(entries[i].v) THEN ImageOfEntries(entries, i + 1)
  ELSE <<KV(entries[i].k, JsonImage(entries[i].v))>> \o ImageOfEntries(entries, i + 1)

JsonImage(v) ==
  CASE v.t = "object" -> Obj(ImageOfEntries(v.entries, 1))
    [] v.t = "array" ->
         Arr([i \in 1..Len(v.items) |->
                IF NotWritten(v.items[i]) THEN Null ELSE JsonImage(v.items[i])])
    [] OTHER -> v

\* the output document of main for the compiled filter
OutputOf(filter) ==
  Obj(<<KV("filter", filter),
        KV("query_example",
           Obj(<<KV("size", Num(10)),
                 KV("query", Obj(<<KV("bool", Obj(<<KV("filter", Get(filter, "bool"))>>))>>))>>)),
        KV("metadata",
           Obj(<<KV("compiled_from", Str("residual.json")),
                 KV("compiled_at", Str("2024-01-01T00:00:00.000Z"))>>))>>)

\* main once the residual is compiled: the document written to the output
\* file as it is read back, or the exception that ends the process
WrittenFor(filter) == IF IsThrow(filter) THEN filter ELSE JsonImage(OutputOf(filter))

\* residual-to-filter.js: main, from the parsed residual to the output file
main(residual) == WrittenFor(compileToOpenSearchFilter(residual))

(***************************************************************************)
(* validate-filter.js.  Error counts are number values; a TypeError raised *)
(* while validating is the value Throw("TypeError").                       *)
(***************************************************************************)
\* the sum of two error counts, or the exception raised first
Plus(a, b) ==
  IF IsThrow(a) THEN a ELSE IF IsThrow(b) THEN b ELSE Num(a.n + b.n)

\* the entries Object.entries visits: own entries of an object, the items of
\* an array
EntriesOf(v) ==
  IF v.t = "object" THEN [i \in 1..Len(v.entries) |-> v.entries[i].v]
  ELSE IF v.t = "array" THEN v.items
  ELSE <<>>

\* the errors validateTermQuery pushes once termQuery.term is read
TermErrors(term) ==
  IF ~Truthy(term) \/ ~TypeofObject(term) THEN Num(1)
  ELSE Num(Cardinality({ i \in 1..Len(EntriesOf(term)) : IsNullish(EntriesOf(term)[i]) }))

validateTermQuery(termQuery) == TermErrors(Get(termQuery, "term"))

\* the callback of forEach for one clause; clause.term of null raises
ClauseErrors(clause) ==
  IF IsNullish(clause) THEN Throw("TypeError")
  ELSE IF Truthy(Get(clause, "term")) THEN validateTermQuery(clause)
  ELSE Num(0)

RECURSIVE ClausesLoop(_, _, _)
\* forEach over the clauses from clause i on
ClausesLoop(clauses, i, errors) ==
  IF IsThrow(errors) \/ i > Len(clauses) THEN errors
  ELSE ClausesLoop(clauses, i + 1, Plus(errors, ClauseErrors(clauses[i])))

\* the checks of bool.must and of bool.must_not: a value that is not an array
\* has no forEach
SectionErrors(section) ==
  IF ~Truthy(section) THEN Num(0)
  ELSE IF section.t # "array" THEN Throw("TypeError")
  ELSE ClausesLoop(section.items, 1, Num(0))

\* the check of bool.should
ShouldErrors(section) == IF Truthy(section) /\ section.t # "array" THEN Num(1) ELSE Num(0)

RECURSIVE SomeLoop(_, _)
\* filter.some(f => f.must || f.must_not || f.should) from item i on; only a
\* warning depends on its value, but reading f.must of null raises
SomeLoop(items, i) ==
  IF i > Len(items) THEN Num(0)
  ELSE IF IsNullish(items[i]) THEN Throw("TypeError")
  ELSE IF Truthy(Get(items[i], "must")) \/ Truthy(Get(items[i], "must_not"))
          \/ Truthy(Get(items[i], "should")) THEN Num(0)
  ELSE SomeLoop(items, i + 1)

\* the check of query_example.query.bool.filter
FilterEntryErrors(f) ==
  IF ~Truthy(f) THEN Num(0)
  ELSE IF f.t # "array" THEN Num(1)
  ELSE SomeLoop(f.items, 1)

\* the check of query_example
QueryExampleErrors(queryExample) ==
  IF Truthy(queryExample) /\ Truthy(Get(queryExample, "query"))
     /\ Truthy(Get(Get(queryExample, "query"), "bool"))
  THEN FilterEntryErrors(Get(Get(Get(queryExample, "query"), "bool"), "filter"))
  ELSE Num(0)

\* the errors collected for the bool query and the query example
ErrorsOf(boolQuery, queryExample) ==
  Plus(Plus(Plus(ShouldErrors(Get(boolQuery, "should")), SectionErrors(Get(boolQuery, "must"))),
            SectionErrors(Get(boolQuery, "must_not"))),
       QueryExampleErrors(queryExample))

\* return errors.length === 0, unless validating raised
Verdict(errors) == IF IsThrow(errors) THEN errors ELSE Bool(errors.n = 0)

\* validateOpenSearchFilter once the file is read and parsed into data
validateOpenSearchFilter(data) ==
  IF IsNullish(data) THEN Throw("TypeError")
  ELSE IF ~Truthy(Get(data, "filter")) THEN Bool(FALSE)
  ELSE IF ~Truthy(Get(Get(data, "filter"), "bool")) THEN Bool(FALSE)
  ELSE Verdict(ErrorsOf(Get(Get(data, "filter"), "bool"), Get(data, "query_example")))

(***************************************************************************)
(* Inputs                                                                  *)
(***************************************************************************)
\* longest children / conditions / array residual sequence enumerated
MaxChildren == 2

\* all sequences over S of length 0..n
SeqsUpTo(S, n) == UNION { [1..k -> S] : k \in 0..n }

\* an operator node { <opKey>: op, <leftKey>: l, <rightKey>: r }
Node(opKey, leftKey, rightKey, op, l, r) ==
  Obj(<<KV(opKey, Str(op)), KV(leftKey, l), KV(rightKey, r)>>)

\* a node { <opKey>: op, <childKey>: children }
Group(opKey, childKey, op, children) ==
  Obj(<<KV(opKey, Str(op)), KV(childKey, children)>>)

Bin(op, l, r) == Node("op", "left", "right", op, l, r)

EntityRef(type, id) == Obj(<<KV("__entity", Str(type)), KV("id", Str(id))>>)

\* equality, inequality, null-check and containment nodes over resource attributes
ResourceLeaves ==
  { Bin("==", Str("resource.tenant"), Str("custco")),
    Bin("==", Str("resource.tenant"), EntityRef("Platform::Tenant", "custco")),
    Bin("!=", Str("resource.classification"), Str("confidential")),
    Bin("eq", Obj(<<KV("attr", Str("classification"))>>), Obj(<<KV("value", Str("public"))>>)),
    Bin("==", Str("resource.team"), Null),
    Bin("ne", Str("resource.team"), Null),
    Bin("contains", Obj(<<KV("value", Arr(<<Str("readers"), Str("writers")>>))>>),
        Str("resource.team")),
    Bin("in", Str("readers"), Obj(<<KV("path", Str("resource.team"))>>)) }

\* nodes that name no resource attribute, an unknown operator, or a principal
OtherLeaves ==
  { Bin("==", Num(5), Str("custco")),
    Bin("contains", Str("principal.teams"), Str("resource.team")),
    Bin("contains", Str("principal.teams"), Str("principal.team")),
    Bin("like", Str("resource.tenant"), Str("cust*")),
    Obj(<<KV("attr", Str("tenant"))>>) }

\* nodes whose compilation raises
ThrowingLeaves ==
  { Bin("==", Obj(<<KV("path", Num(5))>>), Str("custco")),
    Bin("in", Str("readers"), Obj(<<KV("path", Num(5))>>)),
    Group("op", "children", "and", Num(5)),
    Group("op", "args", "or", Obj(<<>>)) }

Leaves == ResourceLeaves \cup OtherLeaves \cup ThrowingLeaves

GroupOps == {"and", "&&", "or", "||"}

\* the leaves combined into longer child sequences
CoreLeaves ==
  { Bin("==", Str("resource.tenant"), Str("custco")),
    Bin("!=", Str("resource.classification"), Str("confidential")),
    Bin("==", Str("resource.team"), Null),
    Bin("contains", Obj(<<KV("value", Arr(<<Str("readers"), Str("writers")>>))>>),
        Str("resource.team")),
    Bin("==", Num(5), Str("custco")),
    Bin("==", Obj(<<KV("path", Num(5))>>), Str("custco")) }

\* and/or nodes over leaves
FlatGroups ==
  { Group("op", "children", op, Arr(cs)) :
      op \in {"and", "or"}, cs \in SeqsUpTo(CoreLeaves, MaxChildren) \cup [1..1 -> Leaves] }

\* and/or nodes one level deeper, over resource leaves
InnerGroups ==
  { Group("op", "children", op, Arr(cs)) :
      op \in {"and", "or"}, cs \in [1..2 -> {l \in ResourceLeaves : Get(l, "op").s \in {"==", "!="}}] }

NestedGroups ==
  { Group("op", "children", op, Arr(<<g, l>>)) :
      op \in {"and", "or"}, g \in InnerGroups,
      l \in { Bin("==", Str("resource.tenant"), Str("custco")) } }
  \cup
  { Group("op", "children", "and", Arr(<<g, h>>)) :
      g \in { x \in InnerGroups : Get(x, "op") = Str("or") },
      h \in { x \in InnerGroups : Get(x, "op") = Str("or") } }

\* the same nodes written with every combination of the field-name aliases
AliasNodes ==
  { Node(ok, lk, rk, op, Str("resource.tenant"), Str("custco")) :
      ok \in {"op", "operator", "kind"}, lk \in {"left", "lhs"},
      rk \in {"right", "rhs"}, op \in {"==", "ne"} }
  \cup
  { Group(ok, ck, op, Arr(cs)) :
      ok \in {"op", "operator", "kind"}, ck \in {"children", "args"}, op \in GroupOps,
      cs \in SeqsUpTo({ Bin("==", Str("resource.tenant"), Str("custco")),
                        Bin("!=", Str("resource.classification"), Str("confidential")) },
                      MaxChildren) }

\* expression-marker wrappers
MarkedNodes ==
  { Obj(<<KV("expr", l)>>) : l \in ResourceLeaves }
  \cup { Obj(<<KV("kind", Str("expr")), KV("op", Str("==")),
               KV("left", Str("resource.tenant")), KV("right", Str("custco"))>>),
         Obj(<<KV("type", Str("permit")), KV("expr", Str("resource.classification == \"confidential\""))>>) }

Nodes == Leaves \cup FlatGroups \cup NestedGroups \cup AliasNodes \cup MarkedNodes

\* condition texts in the forms partial evaluation prints, and JSON texts
CedarTexts ==
  { "resource.classification == \"confidential\"",
    "(resource.tenant) == Platform::Tenant::\"custco\"",
    "Platform::Tenant::\"custco\" == (resource.tenant)",
    "[Platform::Team::\"readers\"].contains(resource.team)",
    "resource.team != null",
    "resource.team == null",
    "principal.teams.contains(resource.team)",
    "resource.classification != \"confidential\"",
    "resource.tenant == \"custco\" && resource.classification == \"public\"",
    "true" \o " && resource.team != null",
    " false ",
    "" }

JsonTexts ==
  { "false", "null", "7", "\"resource.team != null\"",
    "{\"op\": \"==\", \"left\": \"resource.tenant\", \"right\": \"custco\"}",
    "[{\"op\":\"!=\",\"left\":\"resource.classification\",\"right\":\"confidential\"}, \"resource.team != null\"]",
    "{\"conditions\": [\"resource.team != null\"]}",
    "{\"op\": \"and\", \"children\": 5}" }

Texts == { Str(x) : x \in CedarTexts \cup JsonTexts }

\* objects for the key-scanning extractors
LooseObjects ==
  { Obj(<<>>),
    Obj(<<KV("classification", Str("confidential"))>>),
    Obj(<<KV("doc_classification", Str("public")), KV("owner", Str("kate"))>>),
    Obj(<<KV("tenant", EntityRef("Platform::Tenant", "custco"))>>),
    Obj(<<KV("classification", Str("public")), KV("resource_tenant", Str("custco"))>>),
    Obj(<<KV("decision", Str("residual")),
          KV("residuals", Arr(<<Str("resource.classification == \"confidential\"")>>))>>) }

\* objects with keys the heuristic extractor recognizes
HeuristicObjects ==
  { Obj(<<KV("classification", Str("public"))>>),
    Obj(<<KV("doc_classification", Str("confidential")), KV("classification", Str("internal"))>>),
    Obj(<<KV("owner", Str("kate")), KV("classification_level", Num(2))>>),
    Obj(<<KV("tenant", Str("custco"))>>),
    Obj(<<KV("tenant", Str("Platform::Tenant::\"custco\""))>>),
    Obj(<<KV("resource_tenant", EntityRef("Platform::Tenant", "custco")),
          KV("classification", Str("confidential"))>>),
    Obj(<<KV("classification", Str("public")), KV("tenant_ref", Obj(<<KV("__entity", Str("Platform::Tenant"))>>))>>),
    Obj(<<KV("owner", Str("kate")), KV("size", Num(5))>>) }

Primitives == { Null, Undef, Num(0), Num(5), Bool(TRUE), Bool(FALSE) }

TenantOrPublic ==
  Group("op", "children", "or",
        Arr(<<Bin("==", Str("resource.tenant"), Str("custco")),
              Bin("==", Str("resource.classification"), Str("public"))>>))

\* (tenant == custco && classification == public) || team == readers
ConjunctionOrTeam ==
  Group("op", "children", "or",
        Arr(<<Group("op", "children", "and",
                    Arr(<<Bin("==", Str("resource.tenant"), Str("custco")),
                          Bin("==", Str("resource.classification"), Str("public"))>>)),
              Bin("in", Str("readers"), Obj(<<KV("path", Str("resource.team"))>>))>>))

\* elements of condition lists and array residuals
Conditions ==
  ResourceLeaves \cup OtherLeaves \cup ThrowingLeaves \cup Texts \cup LooseObjects
  \cup { Null, Num(5), TenantOrPublic, ConjunctionOrTeam }

\* the conditions combined into longer lists
CoreConditions ==
  { Bin("==", Str("resource.tenant"), Str("custco")),
    Bin("!=", Str("resource.classification"), Str("confidential")),
    Bin("==", Num(5), Str("custco")),
    Bin("==", Obj(<<KV("path", Num(5))>>), Str("custco")),
    TenantOrPublic,
    Str("resource.team != null"),
    Obj(<<KV("classification", Str("confidential"))>>) }

\* conditions the compiler drops: an unknown operator, a principal-dependent
\* containment, an unrecognized text
DroppedConditions ==
  { Bin("like", Str("resource.tenant"), Str("cust*")),
    Str("principal.teams.contains(resource.team)"),
    Str("resource has owner") }

\* condition lists that end with a dropped condition
DroppedLists ==
  { cs \o <<u>> :
      cs \in SeqsUpTo({ Bin("==", Str("resource.tenant"), Str("custco")),
                        Str("resource.team != null") }, 1),
      u \in DroppedConditions }

ConditionLists ==
  SeqsUpTo(CoreConditions, MaxChildren) \cup [1..1 -> Conditions] \cup DroppedLists

\* condition objects in the shape partial-eval.js writes: {type, expr: text}
PolicyConditions ==
  { Obj(<<KV("type", Str(type)), KV("expr", Str(text))>>) :
      type \in {"permit", "forbid"},
      text \in { "resource.classification == \"confidential\"",
                 "(resource.tenant) == Platform::Tenant::\"custco\"",
                 "resource.customer_readers_team != null",
                 "resource.team == null",
                 "principal.teams.contains(resource.team)",
                 "false" } }

\* the mock residual partial-eval.js writes when the Cedar CLI is missing
MockResidual ==
  Obj(<<KV("principal", Str("Platform::Customer::\"kate\"")),
        KV("action", Str("Platform::Action::\"search\"")),
        KV("resourceType", Str("Platform::Chunk")),
        KV("conditions",
           Arr(<<Obj(<<KV("type", Str("permit")),
                       KV("expr", Str("resource.tenant == principal.tenant && resource.customer_readers_team != null && principal.teams.contains(resource.customer_readers_team)"))>>),
                 Obj(<<KV("type", Str("forbid")),
                       KV("expr", Str("resource.classification == \"confidential\""))>>)>>)),
        KV("note", Str("This is a mock residual. Install Cedar CLI for actual TPE results.")),
        KV("_mock", Bool(TRUE))>>)

\* a residual document in the form partial-eval.js writes from the CLI output
CliResidual ==
  Obj(<<KV("decision", Str("UNKNOWN")),
        KV("principal", Str("Platform::Customer::\"kate\"")),
        KV("action", Str("Platform::Action::\"search\"")),
        KV("resourceType", Str("Platform::Chunk")),
        KV("residuals",
           Arr(<<Obj(<<KV("id", Str("policy0")),
                       KV("text", Str("permit(principal, action, resource) when { (resource.tenant) == Platform::Tenant::\"custco\" };\n")),
                       KV("type", Str("permit"))>>)>>)),
        KV("_fromCli", Bool(TRUE))>>)

\* everything handed to compileResidual
Residuals ==
  Nodes \cup Texts \cup LooseObjects \cup HeuristicObjects \cup Primitives
  \cup PolicyConditions \cup { MockResidual, CliResidual }
  \cup { Bin(op, Str("principal.tenant"), Str("custco")) : op \in {"==", "!="} }
  \cup { Bin("contains", l, Str("resource.team")) :
           l \in { Str("principal.teams"),
                   Obj(<<KV("base", Str("principal")), KV("attr", Str("teams"))>>) } }
  \cup { Arr(cs) : cs \in ConditionLists }
  \cup { Arr(<<Arr(<<Bin("==", Str("resource.tenant"), Str("custco"))>>),
               Bin("ne", Str("resource.team"), Null)>>) }

\* accumulators handed to compileExpression
Accumulators ==
  { EmptyResult,
    ClauseSet(<<Term(Str("doc_id"), Str("d1"))>>,
              <<Exists(Str("owner"))>>,
              <<Term(Str("tenant_id"), Str("acme")), Term(Str("tenant_id"), Str("custco"))>>) }

\* everything handed to compileToOpenSearchFilter
TopResiduals ==
  Texts \cup LooseObjects \cup Primitives \cup PolicyConditions
  \cup { MockResidual, CliResidual }
  \cup { Arr(<<c>>) : c \in PolicyConditions }
  \cup { Arr(cs) : cs \in ConditionLists }
  \cup { Obj(<<KV("conditions", Arr(cs))>>) : cs \in SeqsUpTo(ResourceLeaves \cup ThrowingLeaves, 1) }
  \cup { Obj(<<KV("conditions", v)>>) : v \in {Num(5), Bool(TRUE), Str("ab"), Obj(<<>>)} }
  \cup { Obj(<<KV("expr", l)>>) : l \in ResourceLeaves \cup {Str("resource.team != null")} }
  \cup { Obj(<<KV("policies", Arr(ps))>>) :
           ps \in SeqsUpTo({ Obj(<<KV("expr", Str("resource.team != null"))>>),
                             Obj(<<KV("condition", Bin("==", Str("resource.tenant"), Str("custco")))>>),
                             Obj(<<KV("id", Str("p0"))>>), Null }, MaxChildren) }
  \cup { Obj(<<KV("policies", Str("none"))>>),
         Obj(<<KV("when", Bin("==", Str("resource.tenant"), Str("custco"))), KV("effect", Str("permit"))>>) }

\* equality and inequality nodes of a resource attribute with a literal value
EqualityNodes ==
  { Node("op", lk, rk, op, l, r) :
      lk \in {"left", "lhs"}, rk \in {"right", "rhs"}, op \in {"==", "eq", "!=", "ne"},
      l \in { Str("resource.tenant"), Obj(<<KV("attr", Str("owner"))>>),
              Obj(<<KV("path", Str("resource.classification"))>>) },
      r \in { Str("custco"), Str(""), Num(5), Num(0), Bool(TRUE), Bool(FALSE),
              EntityRef("Platform::Tenant", "custco"), Null } }

\* containment nodes: the container on the left, the member on the right
ContainmentNodes ==
  { Node("op", lk, rk, op, l, r) :
      lk \in {"left", "lhs"}, rk \in {"right", "rhs"}, op \in {"in", "contains"},
      l \in { Str("readers"), EntityRef("Platform::Team", "readers"),
              Obj(<<KV("value", Arr(<<Str("readers"), Str("writers")>>))>>),
              Obj(<<KV("value", Arr(<<>>))>>), Obj(<<>>), Null },
      r \in { Str("resource.team"), Obj(<<KV("path", Str("resource.tenant"))>>),
              Obj(<<KV("attr", Str("team"))>>), Str("principal.team"), Str("team"),
              Obj(<<KV("base", Str("principal")), KV("attr", Str("team"))>>), Null } }

\* nodes with an operator the compiler does not know, or with none
UnknownNodes ==
  { Node(ok, "left", "right", op, Str("resource.tenant"), Str("custco")) :
      ok \in {"op", "operator", "kind"},
      op \in {"like", "not", "AND", "=", "===", "<", "has", "expr", ""} }
  \cup { Group("op", "children", op, Arr(<<Bin("==", Str("resource.tenant"), Str("custco"))>>)) :
           op \in {"xor", "And", "OR"} }
  \cup { Obj(<<KV("op", v), KV("left", Str("resource.tenant")), KV("right", Str("custco"))>>) :
           v \in {Num(5), Bool(TRUE), Null, Arr(<<Str("==")>>), Obj(<<>>)} }
  \cup { Obj(<<>>), Arr(<<>>), Arr(<<Bin("==", Str("resource.tenant"), Str("custco"))>>),
         Obj(<<KV("attr", Str("tenant"))>>), Obj(<<KV("attribute", Str("tenant"))>>),
         Obj(<<KV("left", Str("resource.tenant")), KV("right", Str("custco"))>>),
         Obj(<<KV("value", Str("custco"))>>) }

\* attribute paths handed to mapAttributeToField
AttrPaths ==
  { Str(x) : x \in
      { "resource.tenant", "tenant", "resource.customer_readers_team",
        "customer_readers_team", "resource.employee_readers_team", "employee_readers_team",
        "resource.doc", "doc", "resource.classification", "classification",
        "resource.owner", "owner", "resource.team", "resource.tenant_id", "tenant_id",
        "doc_id", "customer_readers_team_id", "resource.doc_id",
        "resource.resource.owner", "resource.resource.tenant", "resource.owner.name",
        "principal.team", "Resource.tenant", "my_resource.tenant", "resource", "resource.",
        "", "resource.Tenant", "resource.constructor", "toString", "resource.valueOf" } }

\* condition texts in which several patterns of parseCedarExpression match
OverlapTexts ==
  { "resource.team != null && resource.tenant == \"custco\"",
    "resource.team == null || (resource.tenant) == Platform::Tenant::\"custco\"",
    "resource.team == null && resource.owner != null",
    "[Platform::Team::\"readers\"].contains(resource.team) && resource.classification == \"public\"",
    "resource.classification == \"public\" && Platform::Tenant::\"custco\" == (resource.tenant)",
    "resource.tenant == Platform::Tenant::\"acme\" && Platform::Tenant::\"custco\" == (resource.tenant)",
    "resource.owner != null && [Platform::Team::\"readers\"].contains(resource.team)",
    "principal.teams.contains(resource.team) && resource.team != null",
    "(resource.owner) == (resource.author)",
    "(resource.owner) == (resource.author) && resource.team != null",
    "(resource.owner) == (resource.author) && Platform::Tenant::\"custco\" == (resource.tenant)",
    "Platform::Tenant::\"acme\" == Platform::Tenant::\"custco\" || resource.team == null",
    "false || resource.team == null",
    "resource.team==null",
    "(resource.classification)   ==   \"confidential\"",
    "resource.tenant == \"\"",
    "resource.team != nullable",
    "principal.tenant == Platform::Tenant::\"custco\"",
    "true" }

\* the entity reference Namespace::Type::"id" as partial evaluation prints it
EntityText(ns, type, id) == ns \o "::" \o type \o "::\"" \o id \o "\""

\* entity-equality texts in both orders, with the entity and attribute of each
EntityEqCases ==
  { [text |-> IF entityFirst
              THEN EntityText(ns, type, id) \o " == (resource." \o a \o ")"
              ELSE "(resource." \o a \o ") == " \o EntityText(ns, type, id),
     ns |-> ns, id |-> id, attr |-> a] :
      entityFirst \in BOOLEAN, ns \in {"Platform", "Acme", "platform"},
      type \in {"Tenant", "Team"}, id \in {"custco", "custco-readers"},
      a \in {"tenant", "customer_readers_team", "owner"} }

\* string-equality texts, with and without parentheses around resource.a
StringEqCases ==
  { [text |-> (IF parens THEN "(resource." \o a \o ")" ELSE "resource." \o a)
                \o " == \"" \o v \o "\"",
     ns |-> "", id |-> v, attr |-> a] :
      parens \in BOOLEAN, a \in {"classification", "tenant", "owner"},
      v \in {"confidential", "custco", "top secret", ""} }

\* single-entity set-containment texts
SetContainsCases ==
  { [text |-> "[" \o EntityText(ns, type, id) \o "].contains(resource." \o a \o ")",
     ns |-> ns, id |-> id, attr |-> a] :
      ns \in {"Platform", "Acme"}, type \in {"Team", "Group"},
      id \in {"custco-readers", "readers"},
      a \in {"customer_readers_team", "employee_readers_team", "team"} }

\* null-check texts: resource.a != null (present) and resource.a == null
NullCheckCases ==
  { [text |-> "resource." \o a \o sp \o (IF present THEN "!=" ELSE "==") \o sp \o "null",
     present |-> present, attr |-> a] :
      present \in BOOLEAN, sp \in {" ", "", "  "},
      a \in {"customer_readers_team", "tenant", "team", "owner_2"} }

\* the boolean literal false with white space around it; JSON.parse accepts
\* the first three, a form feed is white space to trim only
FalseTexts == { "false", " false ", "\tfalse\n", "\ffalse", " false \f" }

\* texts that need the principal or the context, or are no condition at all
UnresolvedTexts ==
  { "principal.teams.contains(resource.team)",
    "principal.groups.contains(resource.customer_readers_team)",
    "principal.tenant == resource.tenant",
    "resource.owner == principal",
    "context.ip == \"10.0.0.1\"",
    "resource has owner",
    "resource.size > 5",
    "true",
    "{tenant: custco}",
    "" }

\* the text of the permit condition in the mock residual of partial-eval.js
MockPermitText ==
  "resource.tenant == principal.tenant && resource.customer_readers_team != null && principal.teams.contains(resource.customer_readers_team)"

\* texts handed to parseCedarExpression
PatternTexts ==
  CedarTexts \cup OverlapTexts
  \cup { c.text : c \in EntityEqCases \cup StringEqCases \cup SetContainsCases }
  \cup { c.text : c \in NullCheckCases } \cup FalseTexts \cup UnresolvedTexts
  \cup { MockPermitText }

\* references to an attribute of the principal, as a path and as an object
PrincipalRefs(attr) ==
  { Str("principal." \o attr),
    Obj(<<KV("base", Str("principal")), KV("attr", Str(attr))>>),
    Obj(<<KV("path", Str("principal." \o attr))>>) }

\* equality and containment nodes with an attribute of the principal as operand
PrincipalNodes ==
  { Bin(op, l, r) : op \in {"==", "!=", "eq"}, l \in PrincipalRefs("tenant"),
                    r \in { Str("custco"), Str("resource.tenant"),
                            Obj(<<KV("path", Str("resource.tenant"))>>) } }
  \cup { Bin(op, Str("resource.tenant"), r) : op \in {"==", "!="}, r \in PrincipalRefs("tenant") }
  \cup { Bin(op, l, r) : op \in {"contains", "in"}, l \in PrincipalRefs("teams"),
                          r \in { Str("resource.team"), Obj(<<KV("attr", Str("team"))>>) } }

\* everything handed to compileExpression
Expressions ==
  Nodes \cup Primitives \cup EqualityNodes \cup ContainmentNodes \cup UnknownNodes
  \cup PrincipalNodes

\* parsed residual files handed to main
MainResiduals == TopResiduals \ {Undef}

\* an output document whose query example holds the bool query in an array
WithFilterArray(filter) ==
  Obj(<<KV("filter", filter),
        KV("query_example",
           Obj(<<KV("query", Obj(<<KV("bool", Obj(<<KV("filter", Arr(<<Get(filter, "bool")>>))>>))>>))>>))>>)

\* parsed filter files handed to validateOpenSearchFilter
FilterFiles ==
  { main(r) : r \in { x \in MainResiduals : ~IsThrow(main(x)) } }
  \cup { WithFilterArray(Get(main(r), "filter")) :
           r \in { x \in MainResiduals : ~IsThrow(main(x)) } }
  \cup { Null, Obj(<<>>), Obj(<<KV("filter", Obj(<<>>))>>), Arr(<<>>),
         Obj(<<KV("filter", Obj(<<KV("bool", Obj(<<KV("must", Obj(<<>>))>>))>>))>>),
         Obj(<<KV("filter", Obj(<<KV("bool", Obj(<<KV("should", Str("x"))>>))>>))>>),
         Obj(<<KV("filter", Obj(<<KV("bool", Obj(<<KV("must", Arr(<<Obj(<<KV("term", Str("x"))>>)>>))>>))>>))>>),
         Obj(<<KV("filter", Obj(<<KV("bool", Obj(<<KV("must_not", Arr(<<Obj(<<KV("term", Obj(<<KV("tenant_id", Null)>>))>>)>>))>>))>>))>>),
         Obj(<<KV("filter", Obj(<<KV("bool", Obj(<<KV("must", Arr(<<Obj(<<KV("match", Obj(<<>>))>>)>>))>>))>>)),
               KV("query_example",
                  Obj(<<KV("query", Obj(<<KV("bool", Obj(<<KV("filter", Arr(<<Obj(<<>>), Null>>))>>))>>))>>))>>) }

(***************************************************************************)
(* State: the last call made to the compiler and what it returned          *)
(***************************************************************************)
\* the last call of a compiler function; the module flag cedarInitialized of
\* the Cedar helpers, the invocations of initCedar so far, and the position of
\* every caller of initializeCedar / createAuthorizer
VARIABLES fn, arg, ret, cedarInitialized, initCedarCalls, calls

vars == <<fn, arg, ret, cedarInitialized, initCedarCalls, calls>>

cedarVars == <<cedarInitialized, initCedarCalls, calls>>

\* callers that may be in flight at once, and the cap on initCedar invocations
MaxCallers == 3

MaxInitCedarCalls == 3

Callers == 1..MaxCallers

\* a caller that is in no call
Idle == [fn |-> "none", pc |-> "idle"]

Init ==
  /\ fn = "none" /\ arg = Undef /\ ret = Undef
  /\ cedarInitialized = FALSE
  /\ initCedarCalls = 0
  /\ calls = [p \in Callers |-> Idle]

CallCompileResidual ==
  \E c \in Residuals \cup { Str(x) : x \in PatternTexts } :
    /\ fn = "none"
    /\ fn' = "compileResidual"
    /\ arg' = c
    /\ ret' = compileResidual(c)
    /\ UNCHANGED cedarVars

CallCompileExpression ==
  \E e \in Expressions, acc \in Accumulators :
    /\ fn = "none"
    /\ fn' = "compileExpression"
    /\ arg' = [expr |-> e, result |-> acc]
    /\ ret' = compileExpression(e, acc)
    /\ UNCHANGED cedarVars

CallBuildOpenSearchFilter ==
  \E cs \in { Arr(x) : x \in ConditionLists } \cup { Num(5), Str("ab"), Null }
             \cup { Arr(<<Str(x)>>) : x \in PatternTexts } :
    /\ fn = "none"
    /\ fn' = "buildOpenSearchFilter"
    /\ arg' = cs
    /\ ret' = buildOpenSearchFilter(cs)
    /\ UNCHANGED cedarVars

CallCompileToOpenSearchFilter ==
  \E r \in TopResiduals :
    /\ fn = "none"
    /\ fn' = "compileToOpenSearchFilter"
    /\ arg' = r
    /\ ret' = compileToOpenSearchFilter(r)
    /\ UNCHANGED cedarVars

CallMapAttributeToField ==
  \E attrPath \in AttrPaths :
    /\ fn = "none"
    /\ fn' = "mapAttributeToField"
    /\ arg' = attrPath
    /\ ret' = mapAttributeToField(attrPath)
    /\ UNCHANGED cedarVars

CallParseCedarExpression ==
  \E exprText \in PatternTexts, acc \in Accumulators :
    /\ fn = "none"
    /\ fn' = "parseCedarExpression"
    /\ arg' = [exprText |-> exprText, result |-> acc]
    /\ ret' = parseCedarExpression(exprText, acc)
    /\ UNCHANGED cedarVars

CallMain ==
  \E residual \in MainResiduals :
    /\ fn = "none"
    /\ fn' = "main"
    /\ arg' = residual
    /\ ret' = main(residual)
    /\ UNCHANGED cedarVars

CallValidateOpenSearchFilter ==
  \E data \in FilterFiles :
    /\ fn = "none"
    /\ fn' = "validateOpenSearchFilter"
    /\ arg' = data
    /\ ret' = validateOpenSearchFilter(data)
    /\ UNCHANGED cedarVars

\* the caller takes the returned value (or the exception); nothing persists
\* between compilations
Return ==
  /\ fn # "none"
  /\ fn' = "none"
  /\ arg' = Undef
  /\ ret' = Undef
  /\ UNCHANGED cedarVars

Next ==
  \/ Return
  \/ CallCompileResidual
  \/ CallCompileExpression
  \/ CallBuildOpenSearchFilter
  \/ CallCompileToOpenSearchFilter
  \/ CallMapAttributeToField
  \/ CallParseCedarExpression
  \/ CallMain
  \/ CallValidateOpenSearchFilter

Spec == Init /\ [][Next]_vars

(***************************************************************************)
(* The Cedar helpers: initializeCedar and createAuthorizer.  A call runs   *)
(* up to its first await in one step; what follows the await runs in a     *)
(* later step, after the awaited promise has settled.                      *)
(***************************************************************************)
\* the caller is free to make a call: it is in none, or its last one settled
CanCall(p) == calls[p].pc \in {"idle", "done", "rejected"}

\* the body of initializeCedar up to `await initCedar()`, or to its end when
\* the flag is set; atEnd is the position of the caller in the latter case
EnterInitializeCedar(p, name, atEnd) ==
  IF ~cedarInitialized
  THEN /\ initCedarCalls < MaxInitCedarCalls
       /\ initCedarCalls' = initCedarCalls + 1
       /\ calls' = [calls EXCEPT ![p] = [fn |-> name, pc |-> "awaitInitCedar"]]
  ELSE /\ initCedarCalls' = initCedarCalls
       /\ calls' = [calls EXCEPT ![p] = [fn |-> name, pc |-> atEnd]]

\* initializeCedar() called
StartInitializeCedar(p) ==
  /\ CanCall(p)
  /\ EnterInitializeCedar(p, "initializeCedar", "done")
  /\ UNCHANGED <<fn, arg, ret, cedarInitialized>>

\* createAuthorizer(options) called: it calls initializeCedar and awaits it
StartCreateAuthorizer(p) ==
  /\ CanCall(p)
  /\ EnterInitializeCedar(p, "createAuthorizer", "awaitInitializeCedar")
  /\ UNCHANGED <<fn, arg, ret, cedarInitialized>>

\* the promise of initCedar is fulfilled: `cedarInitialized = true`
InitCedarResolves(p) ==
  /\ calls[p].pc = "awaitInitCedar"
  /\ cedarInitialized' = TRUE
  /\ calls' = [calls EXCEPT ![p].pc = IF calls[p].fn = "createAuthorizer"
                                      THEN "awaitInitializeCedar" ELSE "done"]
  /\ UNCHANGED <<fn, arg, ret, initCedarCalls>>

\* the promise of initCedar is rejected: the call ends with the rejection
InitCedarRejects(p) ==
  /\ calls[p].pc = "awaitInitCedar"
  /\ calls' = [calls EXCEPT ![p].pc = "rejected"]
  /\ UNCHANGED <<fn, arg, ret, cedarInitialized, initCedarCalls>>

\* createAuthorizer after `await initializeCedar()`: the authorizer is built
AuthorizerBuilt(p) ==
  /\ calls[p].pc = "awaitInitializeCedar"
  /\ calls' = [calls EXCEPT ![p].pc = "done"]
  /\ UNCHANGED <<fn, arg, ret, cedarInitialized, initCedarCalls>>

CedarNext ==
  \E p \in Callers :
    \/ StartInitializeCedar(p)
    \/ StartCreateAuthorizer(p)
    \/ InitCedarResolves(p)
    \/ InitCedarRejects(p)
    \/ AuthorizerBuilt(p)

CedarSpec == Init /\ [][CedarNext]_vars

TypeOK == fn \in {"none", "compileResidual", "compileExpression",
                  "buildOpenSearchFilter", "compileToOpenSearchFilter",
                  "mapAttributeToField", "parseCedarExpression",
                  "main", "validateOpenSearchFilter"}

CedarTypeOK ==
  /\ cedarInitialized \in BOOLEAN
  /\ initCedarCalls \in 0..MaxInitCedarCalls
  /\ calls \in [Callers -> [fn : {"none", "initializeCedar", "createAuthorizer"},
                            pc : {"idle", "awaitInitCedar", "awaitInitializeCedar",
                                  "done", "rejected"}]]

(***************************************************************************)
(* Helpers of the properties                                               *)
(***************************************************************************)
IsClauseSet(v) == v.t = "clauseset"

\* the own keys of a plain object, in order
Keys(v) == [i \in 1..Len(v.entries) |-> v.entries[i].k]

KeySet(v) == { v.entries[i].k : i \in 1..Len(v.entries) }

RECURSIVE Flatten(_)
\* the concatenation of a sequence of sequences
Flatten(seqs) == IF seqs = <<>> THEN <<>> ELSE Head(seqs) \o Flatten(Tail(seqs))

\* some element of the sequence of compilation results is a raised exception
AnyThrow(results) == \E i \in 1..Len(results) : IsThrow(results[i])

\* the must / must_not / should sequences of a sequence of clause sets, concatenated
AllMust(results) == Flatten([i \in 1..Len(results) |-> results[i].must])

AllMustNot(results) == Flatten([i \in 1..Len(results) |-> results[i].must_not])

AllShould(results) == Flatten([i \in 1..Len(results) |-> results[i].should])

\* the operator and the children a node carries under any of the field aliases
OpOf(node) == OrElse(OrElse(Get(node, "op"), Get(node, "operator")), Get(node, "kind"))

ChildrenOf(node) == OrElse(Get(node, "children"), Get(node, "args"))

\* a node with the given operators whose children are an array
IsGroup(node, ops) ==
  /\ node.t = "object"
  /\ OpOf(node) \in { Str(o) : o \in ops }
  /\ ChildrenOf(node).t = "array"

(***************************************************************************)
(* C5: buildOpenSearchFilter returns {bool: B} where B has the key must    *)
(* exactly when the concatenated must sequence of the compiled conditions  *)
(* is non-empty, likewise must_not and should, and minimum_should_match    *)
(* (with value 1) exactly when should is present; B has no other key.      *)
(***************************************************************************)
\* the clause sets of the conditions whose compilation does not raise
Compiled(conditions) ==
  LET all == [i \in 1..Len(conditions) |-> compileResidual(conditions[i])]
  IN SelectSeq(all, IsClauseSet)

C5_FilterShape ==
  (fn = "buildOpenSearchFilter" /\ arg.t = "array") =>
    LET sets == Compiled(arg.items)
        B == Get(ret, "bool")
    IN /\ ret.t = "object" /\ Keys(ret) = <<"bool">>
       /\ B.t = "object"
       /\ Len(B.entries) = Cardinality(KeySet(B))
       /\ KeySet(B) \subseteq {"must", "must_not", "should", "minimum_should_match"}
       /\ ("must" \in KeySet(B)) <=> (AllMust(sets) # <<>>)
       /\ ("must_not" \in KeySet(B)) <=> (AllMustNot(sets) # <<>>)
       /\ ("should" \in KeySet(B)) <=> (AllShould(sets) # <<>>)
       /\ ("minimum_should_match" \in KeySet(B)) <=> ("should" \in KeySet(B))
       /\ ("minimum_should_match" \in KeySet(B)) => Get(B, "minimum_should_match") = Num(1)

\* a filter with should (and its marker) and must_not but no must
C5_Witness ==
  /\ fn = "buildOpenSearchFilter"
  /\ ret.t = "object"
  /\ KeySet(Get(ret, "bool")) = {"must_not", "should", "minimum_should_match"}

(***************************************************************************)
(* C8: for an array residual [c1..cn], each of must, must_not and should   *)
(* of compileResidual's result is the concatenation, in index order, of    *)
(* that sequence of compileResidual(c1), ..., compileResidual(cn) (and the *)
(* call raises exactly when compiling some element raises); the array      *)
(* [classification != "confidential", tenant == "custco"] yields must_not  *)
(* = [term classification confidential], must = [term tenant_id custco].   *)
(***************************************************************************)
\* the array a residual denotes: the array itself, or the array its text parses to
ArrayOf(residual) ==
  IF residual.t = "string" /\ ~IsThrow(JSONparse(residual.s)) THEN JSONparse(residual.s)
  ELSE residual

C8_Example ==
  Arr(<<Bin("!=", Str("resource.classification"), Str("confidential")),
        Bin("==", Str("resource.tenant"), Str("custco"))>>)

C8_ArrayConcatenates ==
  (fn = "compileResidual" /\ ArrayOf(arg).t = "array") =>
    LET items == ArrayOf(arg).items
        each == [i \in 1..Len(items) |-> compileResidual(items[i])]
    IN /\ IsThrow(ret) <=> AnyThrow(each)
       /\ ~IsThrow(ret) =>
            /\ ret.must = AllMust(each)
            /\ ret.must_not = AllMustNot(each)
            /\ ret.should = AllShould(each)
       /\ arg = C8_Example =>
            /\ ret.must = <<Term(Str("tenant_id"), Str("custco"))>>
            /\ ret.must_not = <<Term(Str("classification"), Str("confidential"))>>
            /\ ret.should = <<>>

\* the example array has been compiled
C8_Witness ==
  /\ fn = "compileResidual"
  /\ arg = C8_Example
  /\ Len(ret.must) = 1 /\ Len(ret.must_not) = 1

(***************************************************************************)
(* C9: for an and-node, compileExpression appends to the accumulator's     *)
(* must, must_not and should, in child order, the must, must_not and       *)
(* should sequences of each child compiled into a fresh clause set;        *)
(* what the accumulator held stays in front, in order, and the should      *)
(* entries of nested groups are appended flat.                             *)
(***************************************************************************)
ChildResults(node) ==
  [i \in 1..Len(ChildrenOf(node).items) |->
     compileExpression(ChildrenOf(node).items[i], EmptyResult)]

C9_AndAppends ==
  (fn = "compileExpression" /\ IsGroup(arg.expr, {"and", "&&"})) =>
    LET each == ChildResults(arg.expr)
    IN /\ IsThrow(ret) <=> AnyThrow(each)
       /\ ~IsThrow(ret) =>
            /\ ret.must = arg.result.must \o AllMust(each)
            /\ ret.must_not = arg.result.must_not \o AllMustNot(each)
            /\ ret.should = arg.result.should \o AllShould(each)

\* an and-node over two or-nodes compiled into a non-empty accumulator
C9_Witness ==
  /\ fn = "compileExpression"
  /\ IsGroup(arg.expr, {"and"})
  /\ Len(ChildrenOf(arg.expr).items) = 2
  /\ \A i \in 1..2 : IsGroup(ChildrenOf(arg.expr).items[i], {"or"})
  /\ arg.result.should # <<>>
  /\ ~IsThrow(ret)
  /\ Len(ret.should) = Len(arg.result.should) + 4

(***************************************************************************)
(* C10: for an or-node, compileExpression appends to the accumulator's     *)
(* should, in child order, the entries of each child's must sequence; the  *)
(* children's must_not and should entries are discarded and the            *)
(* accumulator's must and must_not are unchanged.                          *)
(***************************************************************************)
C10_OrAppendsMustToShould ==
  (fn = "compileExpression" /\ IsGroup(arg.expr, {"or", "||"})) =>
    LET each == ChildResults(arg.expr)
    IN /\ IsThrow(ret) <=> AnyThrow(each)
       /\ ~IsThrow(ret) =>
            /\ ret.should = arg.result.should \o AllMust(each)
            /\ ret.must = arg.result.must
            /\ ret.must_not = arg.result.must_not

\* an or-node with a child that compiles to must_not and one that compiles
\* to must, compiled into a non-empty accumulator
C10_Witness ==
  /\ fn = "compileExpression"
  /\ IsGroup(arg.expr, {"or"})
  /\ arg.result.should # <<>>
  /\ ~IsThrow(ret)
  /\ \E i \in 1..Len(ChildrenOf(arg.expr).items) :
       compileExpression(ChildrenOf(arg.expr).items[i], EmptyResult).must_not # <<>>
  /\ Len(ret.should) = Len(arg.result.should) + 1

(***************************************************************************)
(* C2: compileResidual never fails: for every input value it returns a     *)
(* clause set with must, must_not and should sequences and never raises.   *)
(***************************************************************************)
C2_CompileResidualNeverFails ==
  fn = "compileResidual" =>
    /\ ~IsThrow(ret)
    /\ IsClauseSet(ret)
    /\ \A part \in {ret.must, ret.must_not, ret.should} : DOMAIN part = 1..Len(part)

(***************************************************************************)
(* C3: compileToOpenSearchFilter never raises for any residual value: it   *)
(* always returns an object with a bool key, and a condition whose         *)
(* compilation raises contributes no clauses while the clauses of the      *)
(* other conditions are kept.                                              *)
(***************************************************************************)
\* the conditions of the list whose compilation does not raise
NotRaising(conditions) ==
  LET Compiles(c) == ~IsThrow(compileResidual(c))
  IN SelectSeq(conditions, Compiles)

C3_TopLevelNeverRaises ==
  fn = "compileToOpenSearchFilter" =>
    /\ ~IsThrow(ret)
    /\ ret.t = "object" /\ "bool" \in KeySet(ret)
    /\ arg.t = "array" => ret = buildOpenSearchFilter(Arr(NotRaising(arg.items)))

(***************************************************************************)
(* C4: every element of the must, must_not and should sequences returned   *)
(* by compileResidual is a well-formed clause, an object of exactly one of *)
(* the shapes term{field: value}, terms{field: [values]}, exists{field};   *)
(* no sequence contains null or another value.                             *)
(***************************************************************************)
WellFormedClause(c) ==
  /\ c.t = "object"
  /\ Len(c.entries) = 1
  /\ LET kind == c.entries[1].k
         body == c.entries[1].v
     IN /\ kind \in {"term", "terms", "exists"}
        /\ body.t = "object"
        /\ Len(body.entries) = 1
        /\ kind = "term" => ~IsNullish(body.entries[1].v)
        /\ kind = "terms" => body.entries[1].v.t = "array"
        /\ kind = "exists" => body.entries[1].k = "field" /\ body.entries[1].v.t = "string"

C4_ClausesWellFormed ==
  (fn = "compileResidual" /\ IsClauseSet(ret)) =>
    \A part \in {ret.must, ret.must_not, ret.should} :
      \A i \in 1..Len(part) : WellFormedClause(part[i])

(***************************************************************************)
(* C6: for every residual given as text that does not parse as a           *)
(* structured value, compileToOpenSearchFilter returns the filter that     *)
(* buildOpenSearchFilter assembles from the one-element list holding the   *)
(* text, i.e. the clauses the textual pattern matcher finds in it.         *)
(***************************************************************************)
C6_TextDispatchAtTopLevel ==
  (fn = "compileToOpenSearchFilter" /\ arg.t = "string" /\ IsThrow(JSONparse(arg.s))) =>
    ret = buildOpenSearchFilter(Arr(<<arg>>))

(***************************************************************************)
(* C7: a structured node passed to compileResidual compiles to the same    *)
(* clause set whether its operator is carried in the field op, operator or *)
(* kind, its operands in left/lhs and right/rhs, and its children in       *)
(* children/args.                                                          *)
(***************************************************************************)
\* the canonical name of a field alias
CanonicalKey(k) ==
  CASE k \in {"operator", "kind"} -> "op"
    [] k = "lhs" -> "left"
    [] k = "rhs" -> "right"
    [] k = "args" -> "children"
    [] OTHER -> k

\* the node with every alias field renamed to its canonical name
Canonical(node) ==
  Obj([i \in 1..Len(node.entries) |->
         KV(CanonicalKey(node.entries[i].k), node.entries[i].v)])

C7_AliasesEquivalent ==
  (fn = "compileResidual" /\ arg \in AliasNodes) => ret = compileResidual(Canonical(arg))

(***************************************************************************)
(* C1: soundness of enforcement.  For every list of supported residual     *)
(* conditions (equality, inequality, null check, containment, and/or over  *)
(* resource attributes, structured or textual) and every resource document *)
(* over a bounded attribute domain: if the document satisfies the filter   *)
(* buildOpenSearchFilter assembles from compileResidual's clauses (all     *)
(* must clauses hold, no must_not clause holds, at least one should clause *)
(* holds when should is present) then every condition is true of the       *)
(* document; no unauthorized chunk passes the compiled filter.             *)
(***************************************************************************)
\* resource documents: each indexed field holds a value or is absent (null)
Docs ==
  [ tenant_id : {Null, Str("custco"), Str("acme")},
    classification : {Null, Str("public"), Str("confidential")},
    team : {Null, Str("readers"), Str("editors")} ]

FieldOf(doc, field) == IF field \in DOMAIN doc THEN doc[field] ELSE Null

\* the document satisfies one clause of a bool query
ClauseHolds(clause, doc) ==
  /\ clause.t = "object"
  /\ Len(clause.entries) = 1
  /\ LET kind == clause.entries[1].k
         body == clause.entries[1].v
     IN CASE kind = "term" -> FieldOf(doc, body.entries[1].k) = body.entries[1].v
          [] kind = "terms" ->
               \E i \in 1..Len(body.entries[1].v.items) :
                 FieldOf(doc, body.entries[1].k) = body.entries[1].v.items[i]
          [] kind = "exists" -> FieldOf(doc, Get(body, "field").s) # Null
          [] OTHER -> FALSE

\* the clauses under a key of the bool query, none when the key is absent
ClausesOf(boolQuery, key) ==
  IF key \in KeySet(boolQuery) THEN Get(boolQuery, key).items ELSE <<>>

\* the document passes the filter {bool: B}
Matches(filter, doc) ==
  LET B == Get(filter, "bool")
      must == ClausesOf(B, "must")
      mustNot == ClausesOf(B, "must_not")
      should == ClausesOf(B, "should")
  IN /\ \A i \in 1..Len(must) : ClauseHolds(must[i], doc)
     /\ \A i \in 1..Len(mustNot) : ~ClauseHolds(mustNot[i], doc)
     /\ "should" \in KeySet(B) => \E i \in 1..Len(should) : ClauseHolds(should[i], doc)

\* the structured condition a supported condition text states
TextMeaning(text) ==
  CASE text = "resource.classification == \"confidential\"" ->
         Bin("==", Str("resource.classification"), Str("confidential"))
    [] text \in { "(resource.tenant) == Platform::Tenant::\"custco\"",
                  "Platform::Tenant::\"custco\" == (resource.tenant)" } ->
         Bin("==", Str("resource.tenant"), Str("custco"))
    [] text = "[Platform::Team::\"readers\"].contains(resource.team)" ->
         Bin("contains", Obj(<<KV("value", Arr(<<Str("readers")>>))>>), Str("resource.team"))
    [] text = "resource.team != null" -> Bin("!=", Str("resource.team"), Null)
    [] text = "resource.team == null" -> Bin("==", Str("resource.team"), Null)
    [] text = "resource.tenant == \"custco\" && resource.classification == \"public\"" ->
         Group("op", "children", "and",
               Arr(<<Bin("==", Str("resource.tenant"), Str("custco")),
                     Bin("==", Str("resource.classification"), Str("public"))>>))
    [] OTHER -> Undef

RECURSIVE Supported(_)
\* the condition is built from equality, inequality, null checks, containment
\* and and/or over resource attributes
Supported(c) ==
  CASE c.t = "string" -> TextMeaning(c.s) # Undef
    [] c.t = "object" /\ IsGroup(c, GroupOps) ->
         \A i \in 1..Len(ChildrenOf(c).items) : Supported(ChildrenOf(c).items[i])
    [] OTHER -> c \in ResourceLeaves

RECURSIVE Holds(_, _)
\* the condition is true of the resource document; an attribute compared
\* with null is one the document lacks
Holds(c, doc) ==
  IF c.t = "string" THEN Holds(TextMeaning(c.s), doc)
  ELSE LET op == OpOf(c).s
       IN CASE op \in {"and", "&&"} ->
                 \A i \in 1..Len(ChildrenOf(c).items) : Holds(ChildrenOf(c).items[i], doc)
            [] op \in {"or", "||"} ->
                 \E i \in 1..Len(ChildrenOf(c).items) : Holds(ChildrenOf(c).items[i], doc)
            [] op \in {"==", "eq"} ->
                 FieldOf(doc, mapAttributeToField(extractAttributePath(Get(c, "left"))).s)
                   = extractValue(Get(c, "right"))
            [] op \in {"!=", "ne"} ->
                 FieldOf(doc, mapAttributeToField(extractAttributePath(Get(c, "left"))).s)
                   # extractValue(Get(c, "right"))
            [] op \in {"in", "contains"} ->
                 LET member == FieldOf(doc, mapAttributeToField(extractAttributePath(Get(c, "right"))).s)
                     set == extractValue(Get(c, "left"))
                 IN IF set.t = "array" THEN \E i \in 1..Len(set.items) : member = set.items[i]
                    ELSE member = set

C1_FilterIsSound ==
  (/\ fn = "buildOpenSearchFilter"
   /\ arg.t = "array"
   /\ \A i \in 1..Len(arg.items) : Supported(arg.items[i])) =>
    \A doc \in Docs :
      Matches(ret, doc) => \A i \in 1..Len(arg.items) : Holds(arg.items[i], doc)

(***************************************************************************)
(* Helpers of the expression-compiler properties                           *)
(***************************************************************************)
\* the operand a node carries under the field name key or, failing that, alias
OperandOf(node, key, alias) ==
  IF key \in KeySet(node) THEN Get(node, key) ELSE Get(node, alias)

\* the resource attribute an operand names ("" when it names none): the text
\* resource.a, the object {attr: a} or the object {path: resource.a}
AttrNamed(operand) ==
  CASE operand.t = "string" /\ startsWith(operand.s, "resource.") ->
         SubSeq(operand.s, 10, Len(operand.s))
    [] operand.t = "object" /\ Get(operand, "attr").t = "string"
         /\ Get(operand, "base") \in {Undef, Str("resource")} -> Get(operand, "attr").s
    [] operand.t = "object" /\ Get(operand, "path").t = "string"
         /\ startsWith(Get(operand, "path").s, "resource.") ->
         SubSeq(Get(operand, "path").s, 10, Len(Get(operand, "path").s))
    [] OTHER -> ""

\* the documented table of the attribute mapper; other names pass through
TableField(name) ==
  CASE name = "tenant" -> "tenant_id"
    [] name = "customer_readers_team" -> "customer_readers_team_id"
    [] name = "employee_readers_team" -> "employee_readers_team_id"
    [] name = "doc" -> "doc_id"
    [] OTHER -> name

\* a non-null literal: a string, a number, a boolean or an entity reference
IsLiteral(operand) ==
  \/ operand.t \in {"string", "number", "boolean"}
  \/ operand.t = "object" /\ Get(operand, "__entity").t = "string"
       /\ Get(operand, "id").t = "string"

\* the value a literal denotes: itself, or the id of an entity reference
LiteralOf(operand) == IF operand.t = "object" THEN Get(operand, "id") ELSE operand

EqualOps == {Str("=="), Str("eq")}

NotEqualOps == {Str("!="), Str("ne")}

\* an equality or inequality node whose left side names a resource attribute
IsEquality(node) ==
  /\ node.t = "object"
  /\ OpOf(node) \in EqualOps \cup NotEqualOps
  /\ AttrNamed(OperandOf(node, "left", "lhs")) # ""

\* the accumulator with the clause appended to must (positive) or must_not
Appended(result, positive, clause) ==
  IF positive THEN ClauseSet(Append(result.must, clause), result.must_not, result.should)
  ELSE ClauseSet(result.must, Append(result.must_not, clause), result.should)

\* the physical field of the attribute on the left of an equality node
LeftField(node) == Str(TableField(AttrNamed(OperandOf(node, "left", "lhs"))))

(***************************************************************************)
(* C11: for an equality node whose left side names a resource attribute    *)
(* and whose right side is a non-null literal (a string, the empty string  *)
(* included, a number, 0 included, a boolean, false included, or an entity *)
(* id), ==/eq appends exactly Term{mapField(attr): value} to must and      *)
(* !=/ne appends that Term to must_not; no Exists clause is produced.      *)
(***************************************************************************)
C11_EqualityToValue ==
  (/\ fn = "compileExpression"
   /\ IsEquality(arg.expr)
   /\ IsLiteral(OperandOf(arg.expr, "right", "rhs"))) =>
    ret = Appended(arg.result, OpOf(arg.expr) \in EqualOps,
                   Term(LeftField(arg.expr), LiteralOf(OperandOf(arg.expr, "right", "rhs"))))

\* C11 restricted to truthy literals (non-empty strings, non-zero numbers,
\* true, entity ids), where the code does append the Term
C11_TruthyValues ==
  (/\ fn = "compileExpression"
   /\ IsEquality(arg.expr)
   /\ IsLiteral(OperandOf(arg.expr, "right", "rhs"))
   /\ Truthy(OperandOf(arg.expr, "right", "rhs"))) =>
    ret = Appended(arg.result, OpOf(arg.expr) \in EqualOps,
                   Term(LeftField(arg.expr), LiteralOf(OperandOf(arg.expr, "right", "rhs"))))

(***************************************************************************)
(* C12: for a structured equality node whose right-hand value is null,     *)
(* == null appends Exists{field} to must and != null appends Exists{field} *)
(* to must_not.                                                            *)
(***************************************************************************)
C12_NullEqualityPolarity ==
  (/\ fn = "compileExpression"
   /\ IsEquality(arg.expr)
   /\ OperandOf(arg.expr, "right", "rhs") = Null) =>
    ret = Appended(arg.result, OpOf(arg.expr) \in EqualOps, Exists(LeftField(arg.expr)))

\* `!= null` on an accumulator that already holds clauses: the Exists clause
\* is the last entry of must_not
C12_Witness ==
  /\ fn = "compileExpression"
  /\ IsEquality(arg.expr)
  /\ OpOf(arg.expr) \in NotEqualOps
  /\ OperandOf(arg.expr, "right", "rhs") = Null
  /\ arg.result.must_not # <<>>
  /\ ret.must_not = Append(arg.result.must_not, Exists(LeftField(arg.expr)))

(***************************************************************************)
(* C13: for a containment node (in/contains) a clause is produced only     *)
(* when the member (right) side is a resource attribute path, and then it  *)
(* is Term{mapField(member): v} for a single container value or            *)
(* Terms{mapField(member): vs} for an array, appended to must; when the    *)
(* member side is not a resource attribute, or the container resolves to   *)
(* no value, the node adds nothing to must, must_not or should.            *)
(***************************************************************************)
ContainOps == {Str("in"), Str("contains")}

\* the value(s) a container operand resolves to, null when it resolves to
\* none: a literal, the id of an entity reference, the array of {value: [..]}
ContainerValue(operand) ==
  CASE operand.t \in {"string", "number", "boolean"} -> operand
    [] IsLiteral(operand) -> LiteralOf(operand)
    [] operand.t = "object" /\ Get(operand, "value").t = "array" -> Get(operand, "value")
    [] OTHER -> Null

\* the clause of a containment: terms for an array of values, term for one
ContainmentClause(field, v) == IF v.t = "array" THEN Terms(field, v) ELSE Term(field, v)

IsContainment(node) == node.t = "object" /\ OpOf(node) \in ContainOps

C13_ContainmentRule ==
  (fn = "compileExpression" /\ IsContainment(arg.expr)) =>
    LET member == AttrNamed(OperandOf(arg.expr, "right", "rhs"))
        v == ContainerValue(OperandOf(arg.expr, "left", "lhs"))
    IN IF member # "" /\ v # Null
       THEN ret = Appended(arg.result, TRUE, ContainmentClause(Str(TableField(member)), v))
       ELSE ret = arg.result

\* C13 restricted to the nodes that produce a clause: a resource member and
\* a container that resolves to a value
C13_ClauseProduced ==
  (/\ fn = "compileExpression" /\ IsContainment(arg.expr)
   /\ AttrNamed(OperandOf(arg.expr, "right", "rhs")) # ""
   /\ ContainerValue(OperandOf(arg.expr, "left", "lhs")) # Null) =>
    ret = Appended(arg.result, TRUE,
                   ContainmentClause(Str(TableField(AttrNamed(OperandOf(arg.expr, "right", "rhs")))),
                                     ContainerValue(OperandOf(arg.expr, "left", "lhs"))))

(***************************************************************************)
(* C14: for a node whose operator is none of and/&&, or/||, ==/eq, !=/ne,  *)
(* in/contains, or that has no operator, compileExpression does not raise  *)
(* and returns the accumulator it was given, with must, must_not and       *)
(* should unchanged.                                                       *)
(***************************************************************************)
KnownOps ==
  { Str(o) : o \in {"and", "&&", "or", "||", "==", "eq", "!=", "ne", "in", "contains"} }

\* an object or array that carries none of the known operators
IsUnknownNode(node) == node.t \in {"object", "array"} /\ OpOf(node) \notin KnownOps

C14_UnknownOperatorsNoOp ==
  (fn = "compileExpression" /\ IsUnknownNode(arg.expr)) =>
    /\ ~IsThrow(ret)
    /\ ret = arg.result

\* a `like` node compiled into an accumulator that already holds clauses
C14_Witness ==
  /\ fn = "compileExpression"
  /\ OpOf(arg.expr) = Str("like")
  /\ Get(arg.expr, "left") = Str("resource.tenant")
  /\ arg.result.must # <<>> /\ arg.result.should # <<>>
  /\ ret = arg.result

(***************************************************************************)
(* C15: mapAttributeToField strips one leading `resource.` prefix and      *)
(* then returns tenant_id, customer_readers_team_id,                       *)
(* employee_readers_team_id, doc_id, classification for tenant,            *)
(* customer_readers_team, employee_readers_team, doc, classification; for  *)
(* every other name it returns the stripped name itself, unchanged.        *)
(***************************************************************************)
\* the path without one leading `resource.`
WithoutPrefix(path) ==
  IF Len(path) >= 9 /\ SubSeq(path, 1, 9) = "resource." THEN SubSeq(path, 10, Len(path))
  ELSE path

C15_AttributeMapping ==
  (fn = "mapAttributeToField" /\ arg.t = "string") =>
    ret = Str(TableField(WithoutPrefix(arg.s)))

\* C15 for the names that are not property names of Object.prototype
C15_OwnNames ==
  (/\ fn = "mapAttributeToField" /\ arg.t = "string"
   /\ WithoutPrefix(arg.s) \notin ObjectPrototypeKeys) =>
    ret = Str(TableField(WithoutPrefix(arg.s)))

(***************************************************************************)
(* C16: the mapper is idempotent: for every logical path p,                *)
(* mapAttributeToField(mapAttributeToField(p)) = mapAttributeToField(p).   *)
(***************************************************************************)
C16_MapperIdempotent ==
  (fn = "mapAttributeToField" /\ arg.t = "string") => mapAttributeToField(ret) = ret

\* C16 for the paths resource.a and the bare names a, a being a name without
\* a further `resource.` prefix that Object.prototype does not define
C16_SingleAttribute ==
  (/\ fn = "mapAttributeToField" /\ arg.t = "string"
   /\ WithoutPrefix(arg.s) \notin ObjectPrototypeKeys
   /\ WithoutPrefix(WithoutPrefix(arg.s)) = WithoutPrefix(arg.s)) =>
    mapAttributeToField(ret) = ret

(***************************************************************************)
(* Helpers of the textual-pattern properties                               *)
(***************************************************************************)
\* the starting positions of the matches of entityEqMatch's expression that
\* have an entity reference on one side and (resource.attr) on the other
EntityAttrStarts(s) ==
  { j \in 1..Len(s) :
      /\ EntityEqAt(s, j).ok
      /\ Truthy(OrElse(EntityEqAt(s, j).m1.id, EntityEqAt(s, j).m2.id))
      /\ Truthy(OrElse(EntityEqAt(s, j).m1.attr, EntityEqAt(s, j).m2.attr)) }

\* the patterns in their documented order: 1 the false literal, 2 entity
\* equality, 3 string equality, 4 single-entity set containment, 5 != null,
\* 6 == null (7, principal containment, produces no clause)
PatternMatches(s, k) ==
  CASE k = 1 -> trim(s) = "false"
    [] k = 2 -> EntityAttrStarts(s) # {} \/ MatchResourceEntityEq(s).ok
    [] k = 3 -> MatchStringEq(s).ok
    [] k = 4 -> MatchSetContains(s).ok
    [] k = 5 -> MatchNotNull(s).ok
    [] k = 6 -> MatchIsNull(s).ok

\* the first pattern that matches somewhere in the text, 0 when none does
FirstPattern(s) ==
  IF \E k \in 1..6 : PatternMatches(s, k)
  THEN CHOOSE k \in 1..6 : PatternMatches(s, k) /\ \A h \in 1..(k - 1) : ~PatternMatches(s, h)
  ELSE 0

\* the physical field of the attribute a pattern captured
CapturedField(attr) == Str(TableField(attr.s))

\* the clause of the entity-equality pattern
EntityClause(s) ==
  IF EntityAttrStarts(s) # {}
  THEN LET m == EntityEqAt(s, Leftmost(EntityAttrStarts(s)))
       IN Term(CapturedField(OrElse(m.m1.attr, m.m2.attr)), OrElse(m.m1.id, m.m2.id))
  ELSE Term(CapturedField(MatchResourceEntityEq(s).attr), MatchResourceEntityEq(s).id)

\* the accumulator after pattern k alone has determined the result
PatternResult(s, k, result) ==
  CASE k = 2 -> Appended(result, TRUE, EntityClause(s))
    [] k = 3 -> Appended(result, TRUE,
                         Term(CapturedField(MatchStringEq(s).attr), MatchStringEq(s).id))
    [] k = 4 -> Appended(result, TRUE,
                         Term(CapturedField(MatchSetContains(s).attr), MatchSetContains(s).id))
    [] k = 5 -> Appended(result, TRUE, Exists(CapturedField(MatchNotNull(s).attr)))
    [] k = 6 -> Appended(result, FALSE, Exists(CapturedField(MatchIsNull(s).attr)))
    [] OTHER -> result

\* the number of patterns that match somewhere in the text
MatchCount(s) == Cardinality({ k \in 1..6 : PatternMatches(s, k) })

(***************************************************************************)
(* C17: parseCedarExpression tries its patterns in the fixed order (false  *)
(* literal, entity equality, string equality, single-entity set            *)
(* containment, != null, == null, principal containment) and the first     *)
(* pattern that matches anywhere in the text alone determines the result:  *)
(* when an earlier and a later pattern both match, the output is the       *)
(* earlier pattern's clause set, wherever in the text each match occurs.   *)
(***************************************************************************)
C17_PatternPrecedence ==
  fn = "parseCedarExpression" =>
    ret = PatternResult(arg.exprText, FirstPattern(arg.exprText), arg.result)

\* C17 for the texts in which the leftmost match of entityEqMatch's
\* expression, if there is one, has an entity reference on one side and
\* (resource.attr) on the other
C17_LeftmostEntityMatch ==
  (/\ fn = "parseCedarExpression"
   /\ MatchEntityEq(arg.exprText).ok =>
        Leftmost({ j \in 1..Len(arg.exprText) : EntityEqAt(arg.exprText, j).ok })
          \in EntityAttrStarts(arg.exprText)) =>
    ret = PatternResult(arg.exprText, FirstPattern(arg.exprText), arg.result)

\* a text where a later pattern matches first in the text and the earlier
\* pattern still determines the result
C17_OverlapReached ==
  /\ fn = "parseCedarExpression"
  /\ MatchCount(arg.exprText) >= 2
  /\ FirstPattern(arg.exprText) = 3
  /\ ret.must = Append(arg.result.must, Term(Str("tenant_id"), Str("custco")))

(***************************************************************************)
(* C18: textual entity equality is symmetric and independent of the        *)
(* namespace: for every entity reference Namespace::Type::"id" and         *)
(* attribute a, both `Namespace::Type::"id" == (resource.a)` and           *)
(* `(resource.a) == Namespace::Type::"id"` compile to a clause set whose   *)
(* must is exactly [Term{mapField(a): id}] and whose must_not and should   *)
(* are empty.                                                              *)
(***************************************************************************)
\* the clause set holding one must clause
OnlyMust(clause) == ClauseSet(<<clause>>, <<>>, <<>>)

C18_EntityEqualityAnyNamespace ==
  (fn = "parseCedarExpression" /\ arg.result = EmptyResult) =>
    \A c \in EntityEqCases :
      arg.exprText = c.text => ret = OnlyMust(Term(Str(TableField(c.attr)), Str(c.id)))

\* C18 for the entity references of the namespace Platform
C18_PlatformNamespace ==
  (fn = "parseCedarExpression" /\ arg.result = EmptyResult) =>
    \A c \in EntityEqCases :
      (arg.exprText = c.text /\ c.ns = "Platform") =>
        ret = OnlyMust(Term(Str(TableField(c.attr)), Str(c.id)))

(***************************************************************************)
(* C19: a text consisting of `resource.a == "s"` (parentheses around       *)
(* resource.a optional) compiles to must = [Term{mapField(a): s}], and a   *)
(* text consisting of `[Namespace::Type::"id"].contains(resource.a)`       *)
(* compiles to must = [Term{mapField(a): id}], in both cases with must_not *)
(* and should empty.                                                       *)
(***************************************************************************)
C19_TermTexts ==
  (fn = "parseCedarExpression" /\ arg.result = EmptyResult) =>
    \A c \in StringEqCases \cup SetContainsCases :
      arg.exprText = c.text => ret = OnlyMust(Term(Str(TableField(c.attr)), Str(c.id)))

\* C19 for non-empty string literals and entity references of the namespace
\* Platform
C19_PlatformAndNonEmpty ==
  (fn = "parseCedarExpression" /\ arg.result = EmptyResult) =>
    \A c \in StringEqCases \cup SetContainsCases :
      (arg.exprText = c.text /\ c.ns \in {"", "Platform"} /\ c.id # "") =>
        ret = OnlyMust(Term(Str(TableField(c.attr)), Str(c.id)))

(***************************************************************************)
(* C20: a text `resource.a != null` compiles to must =                     *)
(* [Exists{mapField(a)}] with must_not and should empty, and a text        *)
(* `resource.a == null` compiles to must_not = [Exists{mapField(a)}] with  *)
(* must and should empty.                                                  *)
(***************************************************************************)
C20_NullCheckTexts ==
  (fn = "parseCedarExpression" /\ arg.result = EmptyResult) =>
    \A c \in NullCheckCases :
      arg.exprText = c.text =>
        ret = Appended(EmptyResult, c.present, Exists(Str(TableField(c.attr))))

\* `resource.customer_readers_team == null` compiled: one must_not clause
C20_Witness ==
  /\ fn = "parseCedarExpression"
  /\ arg.exprText = "resource.customer_readers_team == null"
  /\ arg.result = EmptyResult
  /\ ret = ClauseSet(<<>>, <<Exists(Str("customer_readers_team_id"))>>, <<>>)

(***************************************************************************)
(* C21: a text that is the boolean literal false, white space around it    *)
(* ignored, compiles to the empty clause set (must, must_not and should    *)
(* empty), so it adds no key to the assembled filter.                      *)
(***************************************************************************)
IsFalseText(v) == v.t = "string" /\ trim(v.s) = "false"

C21_FalseText ==
  /\ (fn = "compileResidual" /\ IsFalseText(arg)) => ret = EmptyResult
  /\ (fn = "parseCedarExpression" /\ trim(arg.exprText) = "false") => ret = arg.result
  /\ (fn = "buildOpenSearchFilter" /\ arg.t = "array" /\ arg.items # <<>>
        /\ \A i \in 1..Len(arg.items) : IsFalseText(arg.items[i])) =>
       ret = Obj(<<KV("bool", Obj(<<>>))>>)

\* the literal false between white space, compiled by compileResidual
C21_Witness ==
  /\ fn = "compileResidual"
  /\ arg = Str(" false ")
  /\ ret = EmptyResult

(***************************************************************************)
(* C22: a text of the form principal.X.contains(resource.Y), and any text  *)
(* that matches none of the recognized patterns, compiles to the empty     *)
(* clause set without raising.                                             *)
(***************************************************************************)
\* a text JSON.parse rejects, in which none of the patterns matches
IsUnmatchedText(v) ==
  v.t = "string" /\ IsThrow(JSONparse(v.s)) /\ FirstPattern(v.s) = 0

C22_UnresolvableText ==
  /\ (fn = "parseCedarExpression" /\ FirstPattern(arg.exprText) = 0) => ret = arg.result
  /\ (fn = "compileResidual" /\ IsUnmatchedText(arg)) => ret = EmptyResult

\* a principal containment compiled by compileResidual
C22_Witness ==
  /\ fn = "compileResidual"
  /\ arg = Str("principal.groups.contains(resource.customer_readers_team)")
  /\ IsUnmatchedText(arg)
  /\ ret = EmptyResult

(***************************************************************************)
(* C23: for a structured object with no expression marker and no operator  *)
(* field that is not a sequence, compileResidual returns a clause set      *)
(* holding, per key in key order, Term{tenant_id: entity id of the value}  *)
(* in must for each key containing `tenant`, and for each key containing   *)
(* `classification` a Term on classification (in must_not when the value   *)
(* is "confidential", otherwise in must); every other key contributes      *)
(* nothing.                                                                *)
(***************************************************************************)
\* an object the heuristic extractor receives
IsHeuristicInput(v) ==
  /\ v.t = "object"
  /\ Get(v, "kind") # Str("expr") /\ ~Truthy(Get(v, "expr"))
  /\ ~Truthy(Get(v, "op")) /\ ~Truthy(Get(v, "operator"))

\* the clause set after one more entry of the object
WithEntry(result, key, value) ==
  IF includes(key, "tenant")
  THEN Appended(result, TRUE, Term(Str("tenant_id"), extractEntityId(value)))
  ELSE IF includes(key, "classification")
  THEN Appended(result, value # Str("confidential"), Term(Str("classification"), value))
  ELSE result

RECURSIVE HeuristicClauses(_, _)
\* the clause set of the first n entries, in key order
HeuristicClauses(entries, n) ==
  IF n = 0 THEN EmptyResult
  ELSE WithEntry(HeuristicClauses(entries, n - 1), entries[n].k, entries[n].v)

HasTenantKey(v) == \E i \in 1..Len(v.entries) : includes(v.entries[i].k, "tenant")

C23_HeuristicExtractor ==
  (fn = "compileResidual" /\ IsHeuristicInput(arg)) =>
    ret = HeuristicClauses(arg.entries, Len(arg.entries))

\* C23 for the objects none of whose keys contains `tenant`
C23_WithoutTenantKey ==
  (fn = "compileResidual" /\ IsHeuristicInput(arg) /\ ~HasTenantKey(arg)) =>
    ret = HeuristicClauses(arg.entries, Len(arg.entries))

(***************************************************************************)
(* C24: dropped conditions are surfaced: the value the compile entry       *)
(* points return lets the caller tell an input in which some condition was *)
(* dropped or unresolved (unknown operator, principal-dependent            *)
(* containment, unrecognized text) from an input without it; two inputs    *)
(* that differ only by an added unresolved condition do not produce        *)
(* identical return values.                                                *)
(***************************************************************************)
\* the array ends with a dropped condition
EndsWithDropped(v) ==
  v.t = "array" /\ v.items # <<>> /\ v.items[Len(v.items)] \in DroppedConditions

\* the array without its last item
WithoutLast(v) == Arr(SubSeq(v.items, 1, Len(v.items) - 1))

C24_DroppedConditionsSurfaced ==
  /\ (fn = "compileResidual" /\ EndsWithDropped(arg)) =>
       ret # compileResidual(WithoutLast(arg))
  /\ (fn = "buildOpenSearchFilter" /\ EndsWithDropped(arg)) =>
       ret # buildOpenSearchFilter(WithoutLast(arg))
  /\ (fn = "compileToOpenSearchFilter" /\ EndsWithDropped(arg)) =>
       ret # compileToOpenSearchFilter(WithoutLast(arg))

(***************************************************************************)
(* C25: for every residual, the output document that main assembles        *)
(* ({filter, query_example: {query: {bool: {filter: filter.bool}}},        *)
(* metadata}) is accepted by the validator: validateOpenSearchFilter       *)
(* returns true on it.                                                     *)
(***************************************************************************)
C25_OutputValidates ==
  (fn = "main" /\ ~IsThrow(ret)) => validateOpenSearchFilter(ret) = Bool(TRUE)

\* the sequence holds no null
NoNull(clauses) ==
  clauses.t = "array" => \A i \in 1..Len(clauses.items) : clauses.items[i] # Null

\* the output of main with the bool query of the query example in an array
\* is accepted whenever must and must_not hold no null
C25_WithFilterInArray ==
  (/\ fn = "main" /\ ~IsThrow(ret)
   /\ NoNull(Get(Get(Get(ret, "filter"), "bool"), "must"))
   /\ NoNull(Get(Get(Get(ret, "filter"), "bool"), "must_not"))) =>
    validateOpenSearchFilter(WithFilterArray(Get(ret, "filter"))) = Bool(TRUE)

(***************************************************************************)
(* C26: a condition object of the shape partial-eval writes, {type:        *)
(* permit|forbid, expr: text}, compiles through compileResidual and        *)
(* compileToOpenSearchFilter to the same clause set as the text alone; the *)
(* mock residual, which holds the condition                                *)
(* resource.classification == "confidential", yields a filter with at      *)
(* least one clause, and so does a residual document in the CLI form       *)
(* ({decision, residuals: [...]}) with a resource condition.               *)
(***************************************************************************)
\* the filter has at least one clause
HasClause(filter) ==
  /\ filter.t = "object"
  /\ Get(filter, "bool").t = "object"
  /\ Get(filter, "bool").entries # <<>>

C26_PipelineCompatible ==
  /\ (fn = "compileResidual" /\ arg \in PolicyConditions) =>
       ret = compileResidual(Get(arg, "expr"))
  /\ (fn = "compileToOpenSearchFilter" /\ arg.t = "array" /\ Len(arg.items) = 1
        /\ arg.items[1] \in PolicyConditions) =>
       ret = buildOpenSearchFilter(Arr(<<Get(arg.items[1], "expr")>>))
  /\ (fn = "compileToOpenSearchFilter" /\ arg \in {MockResidual, CliResidual}) =>
       HasClause(ret)

\* C26 for the condition objects whose text produces no clause
C26_ClauselessTexts ==
  (/\ fn = "compileResidual" /\ arg \in PolicyConditions
   /\ compileResidual(Get(arg, "expr")) = EmptyResult) =>
    ret = compileResidual(Get(arg, "expr"))

(***************************************************************************)
(* C27: a condition that can be written both as a text and as a structured *)
(* node (resource.a == "s", resource.a == null, resource.a != null, and    *)
(* containment of resource.a in a single value) compiles to the same       *)
(* clause set either way: parseCedarExpression on the text and             *)
(* compileExpression on the node put the same clause in the same section.  *)
(***************************************************************************)
\* the conditions of both forms that compile to a term clause
TermForms ==
  { [text |-> c.text, node |-> Bin("==", Str("resource." \o c.attr), Str(c.id))] :
      c \in { x \in StringEqCases : x.id # "" } }
  \cup { [text |-> c.text,
          node |-> Bin("contains", EntityRef(c.ns \o "::Team", c.id), Str("resource." \o c.attr))] :
           c \in { x \in SetContainsCases : x.ns = "Platform" } }

\* the null checks of both forms
NullForms ==
  { [text |-> c.text,
     node |-> Bin(IF c.present THEN "!=" ELSE "==", Str("resource." \o c.attr), Null)] :
      c \in NullCheckCases }

C27_TextAndNodeAgree ==
  fn = "parseCedarExpression" =>
    \A c \in TermForms \cup NullForms :
      arg.exprText = c.text => ret = compileExpression(c.node, arg.result)

\* C27 for string equality and single-value containment alone
C27_TermFormsAgree ==
  fn = "parseCedarExpression" =>
    \A c \in TermForms :
      arg.exprText = c.text =>
        /\ ret = compileExpression(c.node, arg.result)
        /\ Len(ret.must) = Len(arg.result.must) + 1

(***************************************************************************)
(* C28: parseCedarExpression emits at most one clause per text: the clause *)
(* set it returns for a text has |must| + |must_not| + |should| <= 1 and   *)
(* an empty should, so a text that joins several conditions with && or ||  *)
(* yields the clause of only one of them.  On an accumulator that already  *)
(* holds clauses it adds at most one and leaves should as it was.          *)
(***************************************************************************)
\* the number of clauses of a clause set
ClauseCount(result) == Len(result.must) + Len(result.must_not) + Len(result.should)

C28_AtMostOneClause ==
  fn = "parseCedarExpression" =>
    /\ IsClauseSet(ret)
    /\ ClauseCount(ret) <= ClauseCount(arg.result) + 1
    /\ ret.should = arg.result.should
    /\ arg.result = EmptyResult => (ClauseCount(ret) <= 1 /\ ret.should = <<>>)

\* two null checks joined with &&: only the clause of the second is returned
C28_Witness ==
  /\ fn = "parseCedarExpression"
  /\ arg.exprText = "resource.team == null && resource.owner != null"
  /\ arg.result = EmptyResult
  /\ ret = ClauseSet(<<Exists(Str("owner"))>>, <<>>, <<>>)

(***************************************************************************)
(* C29: the clauses compiled from an equality or containment node whose    *)
(* operands include attributes of the principal name resource fields only: *)
(* no term, terms or exists clause has a `principal.*` path as its field,  *)
(* and none carries an unresolved attribute path (such as the string       *)
(* `principal.teams`) as its value.                                        *)
(***************************************************************************)
\* the string is an attribute path of the principal or the resource
IsAttrPath(value) ==
  value.t = "string" /\ (startsWith(value.s, "principal.") \/ startsWith(value.s, "resource."))

\* the clause names a resource field and holds no attribute path as value
ResourceClause(clause) ==
  (clause.t = "object" /\ Len(clause.entries) = 1 /\ clause.entries[1].v.t = "object"
     /\ Len(clause.entries[1].v.entries) = 1) =>
    LET kind == clause.entries[1].k
        inner == clause.entries[1].v.entries[1]
    IN IF kind = "exists" THEN ~IsAttrPath(inner.v)
       ELSE ~startsWith(inner.k, "principal.") /\ ~IsAttrPath(inner.v)

\* the node is one of PrincipalNodes and was compiled into the clause set ret
PrincipalNodeCompiled(node) ==
  /\ node \in PrincipalNodes
  /\ \/ fn = "compileResidual" /\ arg = node
     \/ fn = "compileExpression" /\ arg.expr = node
  /\ IsClauseSet(ret)

C29_ResourceFieldsOnly ==
  \A node \in PrincipalNodes :
    PrincipalNodeCompiled(node) =>
      \A section \in {ret.must, ret.must_not, ret.should} :
        \A i \in 1..Len(section) : ResourceClause(section[i])

\* C29 for containment in a principal attribute given as an object: no clause
\* is built, null is pushed in its place
C29_ObjectContainer ==
  \A node \in PrincipalNodes :
    (/\ PrincipalNodeCompiled(node) /\ fn = "compileResidual"
     /\ OpOf(node).s \in {"contains", "in"} /\ Get(node, "left").t = "object") =>
      ret = ClauseSet(<<Null>>, <<>>, <<>>)

(***************************************************************************)
(* C30: initializeCedar is idempotent: over any number and any             *)
(* interleaving of calls, calls started while an earlier one still awaits  *)
(* initCedar included, initCedar is invoked at most once, and once a call  *)
(* has completed cedarInitialized is true.                                 *)
(***************************************************************************)
C30_InitializeCedarIdempotent ==
  /\ initCedarCalls <= 1
  /\ \A p \in Callers : calls[p].pc = "done" => cedarInitialized

\* C30 without the count: a completed call leaves the flag set
C30_CompletedMeansInitialized ==
  \A p \in Callers :
    calls[p].pc \in {"done", "awaitInitializeCedar"} => cedarInitialized

\* C30 for calls started after the flag is set: initCedar is not invoked again
C30_NoInvocationOnceInitialized ==
  [][cedarInitialized => initCedarCalls' = initCedarCalls]_vars

====
